---- MODULE Spec2Model ----
(***************************************************************************)
(* A model of DocuAgent's selection store (toc/persistence.py), of its      *)
(* source parser (analyzer/parser.py: visibility policies, class bodies,   *)
(* parameter lists), of its repository walk (analyzer/extractor.py) and of *)
(* the places of the CLI that drive them.                                  *)
(*                                                                         *)
(* Files on disk are modelled by their parsed content: a file is absent,   *)
(* unparseable, an empty document, or a document.  Timestamps ("updated_at",*)
(* "exported_at"), the "version" and the "metadata" keys are written by    *)
(* the code and never read back; they are left out.  A Python dict is a    *)
(* function; dict equality ignores insertion order, and so does the model. *)
(***************************************************************************)
EXTENDS Integers, Sequences, FiniteSets, TLC

VARIABLES
    selFile,          \* .docuagent/selections.yaml
    descFile,         \* .docuagent/descriptions.json
    xfile,            \* the export file last written (path and content)
    exported,         \* ghost: the live map at the time xfile was written
    op,               \* ghost: name of the last operation
    arg,              \* ghost: its arguments
    ret,              \* ghost: its outcome, [raised, value]
    pre,              \* ghost: the files before the last operation
    pc,               \* per process: position inside update_selection
    snap,             \* per process: the map update_selection loaded
    req,              \* per process: the arguments of its update_selection
    saved,            \* the processes in the order in which they saved
    base,             \* ghost: the selections file when the processes started
    tree,             \* the module-level statements of the file being parsed
    include_private,  \* PythonParser.include_private
    module,           \* the ModuleComponent parse_file returned
    class_body,       \* the body of the class definition being parsed
    klass,            \* the ClassComponent _parse_class returned
    fn,               \* the function definition whose parameters are parsed
    params,           \* the parameter list _parse_parameters returned
    rel_path,         \* the relative path _should_exclude is asked about
    include_tests,    \* APIExtractor.include_tests
    exclude_patterns, \* the caller's additional exclusion patterns
    excluded,         \* what _should_exclude returned
    repo,             \* the repository: relative path -> file content
    walks,            \* ghost: the orders in which rglob yielded the files
    runs,             \* the outcomes of the extract() runs so far
    src_file,         \* a source file: its relative path and statements
    parsed,           \* the versions of src_file parsed so far, with results
    mods,             \* the modules handed to TOCGenerator.generate
    toc,              \* the outline generate returned
    chosen,           \* the id -> bool map handed to filter_by_selections
    filtered,         \* the outline filter_by_selections returned
    callee,           \* the function or method whose title is formatted
    rendered,         \* the title _format_*_title returned
    session,          \* the map the select session holds in memory
    site              \* what HTMLGenerator.generate wrote

vars == <<selFile, descFile, xfile, exported, op, arg, ret, pre,
          pc, snap, req, saved, base, tree, include_private, module,
          class_body, klass, fn, params, rel_path, include_tests,
          exclude_patterns, excluded, repo, walks, runs,
          src_file, parsed, mods, toc, chosen, filtered, callee, rendered,
          session, site>>

storeVars == <<selFile, descFile, xfile, exported, op, arg, ret, pre>>
procVars  == <<pc, snap, req, saved, base>>
classVars   == <<class_body, klass>>
paramVars   == <<fn, params>>
excludeVars == <<rel_path, excluded>>
optionVars  == <<include_tests, exclude_patterns>>
extractVars == <<repo, walks, runs>>
idVars      == <<src_file, parsed>>
tocVars     == <<mods, toc, chosen, filtered>>
titleVars   == <<callee, rendered>>
siteVars    == <<session, site>>
outlineVars == <<idVars, tocVars, titleVars, siteVars>>
parseVars == <<tree, include_private, module, classVars, paramVars,
               excludeVars, optionVars, extractVars, outlineVars>>

(***************************************************************************)
(* Bounds and input sets                                                   *)
(***************************************************************************)
MaxEntries == 3      \* entries of an outline, all levels together
MaxDecls   == 3      \* module-level statements of a parsed file

Ids    == {"1f3a", "9c0e"}          \* entry ids (hashes, shortened)
Titles == {"T"}                     \* custom titles a user may give
Descrs == {"D"}                     \* custom descriptions a user may give
Texts  == {"g1", "g2"}              \* generated description texts
Procs  == {"p1", "p2"}              \* concurrent CLI processes

\* Python's None / an optional value
None    == <<>>
Some(v) == <<v>>
Opt(S)  == {None} \cup {Some(v) : v \in S}

EmptyMap == [i \in {} |-> None]

(***************************************************************************)
(* TOCSelection (models/components.py) and the files' content              *)
(***************************************************************************)
TOCSelection(entry_id, included, custom_title, custom_description) ==
    [entry_id |-> entry_id, included |-> included,
     custom_title |-> custom_title, custom_description |-> custom_description]

\* a file: kind is "absent", "garbage" (unparseable), "empty" (a null
\* document) or "doc"; body is the parsed mapping of a "doc"
NoFile      == [kind |-> "absent",  body |-> EmptyMap]
GarbageFile == [kind |-> "garbage", body |-> EmptyMap]
EmptyFile   == [kind |-> "empty",   body |-> EmptyMap]
DocFile(b)  == [kind |-> "doc",     body |-> b]

Ok(v)     == [raised |-> FALSE, value |-> v]
Raised(e) == [raised |-> TRUE,  value |-> e]

\* the "selections" mapping save_selections and export_selections write
DumpSelections(selections) ==
    [i \in DOMAIN selections |->
        [included           |-> selections[i].included,
         custom_title       |-> selections[i].custom_title,
         custom_description |-> selections[i].custom_description]]

\* the loop of load_selections and import_selections over data["selections"]
ParseSelections(body) ==
    [i \in DOMAIN body |->
        TOCSelection(i, body[i].included, body[i].custom_title,
                     body[i].custom_description)]

\* save_selections: a whole-file rewrite
save_selections(selections) == DocFile(DumpSelections(selections))

\* load_selections: {} for a missing file and for an empty document
\* ("yaml.safe_load(f) or {}"); yaml.safe_load raises on an unparseable file
load_selections(file) ==
    CASE file.kind = "absent"  -> Ok(EmptyMap)
      [] file.kind = "garbage" -> Raised("YAMLError")
      [] file.kind = "empty"   -> Ok(EmptyMap)
      [] OTHER                 -> Ok(ParseSelections(file.body))


(***************************************************************************)
(* Outlines: lists of TOCEntry trees                                       *)
(***************************************************************************)
\* an outline in pre-order, as (id, level) pairs: a root has level 0, a
\* child its parent's level + 1, and no entry is deeper than level 2
IsPreorder(f) ==
    /\ Len(f) > 0 => f[1].level = 0
    /\ \A k \in 2..Len(f) : f[k].level <= f[k-1].level + 1

FlatOutlines ==
    {f \in UNION {[1..n -> [id : Ids, level : 0..2]] : n \in 0..MaxEntries} :
        IsPreorder(f)}

\* the positions of the children of the entry at position i
ChildIdx(f, i) ==
    {j \in (i+1)..Len(f) :
        /\ f[j].level = f[i].level + 1
        /\ \A k \in (i+1)..(j-1) : f[k].level > f[i].level}

RECURSIVE Ascending(_)
Ascending(S) ==
    IF S = {} THEN <<>>
    ELSE LET m == CHOOSE x \in S : \A y \in S : x <= y
         IN  <<m>> \o Ascending(S \ {m})

\* TOCEntry: the fields the selection store reads
RECURSIVE EntryAt(_, _)
EntryAt(f, i) ==
    LET idx == Ascending(ChildIdx(f, i))
    IN  [id       |-> f[i].id,
         level    |-> f[i].level,
         children |-> [k \in 1..Len(idx) |-> EntryAt(f, idx[k])]]

OutlineOf(f) ==
    LET idx == Ascending({j \in 1..Len(f) : f[j].level = 0})
    IN  [k \in 1..Len(idx) |-> EntryAt(f, idx[k])]

\* the ids of an outline, all levels
RECURSIVE EntryIds(_)
EntryIds(e) ==
    {e.id} \cup UNION {EntryIds(e.children[k]) : k \in 1..Len(e.children)}

OutlineIds(entries) == UNION {EntryIds(entries[k]) : k \in 1..Len(entries)}

(***************************************************************************)
(* SelectionManager: the in-memory part of each operation                  *)
(***************************************************************************)
\* dict assignment d[k] = v
Put(d, k, v) == [i \in DOMAIN d \cup {k} |-> IF i = k THEN v ELSE d[i]]

\* dict.update
Update(d, e) ==
    [i \in DOMAIN d \cup DOMAIN e |-> IF i \in DOMAIN e THEN e[i] ELSE d[i]]

\* updated_selections with "is not None" left out for the title
updated_selections_title(selections, entry_id, included, custom_title, custom_description) ==
    IF entry_id \in DOMAIN selections
    THEN LET sel == selections[entry_id]
         IN  Put(selections, entry_id,
                 [sel EXCEPT
                    !.included = IF included # None THEN included[1] ELSE @,
                    !.custom_title = custom_title,
                    !.custom_description =
                        IF custom_description # None THEN custom_description
                        ELSE @])
    ELSE Put(selections, entry_id,
             TOCSelection(entry_id,
                          IF included # None THEN included[1] ELSE TRUE,
                          custom_title, custom_description))

\* update_selection, between its load and its save
updated_selections(selections, entry_id, included, custom_title, custom_description) ==
    IF entry_id \in DOMAIN selections
    THEN LET sel == selections[entry_id]
         IN  Put(selections, entry_id,
                 [sel EXCEPT
                    !.included = IF included # None THEN included[1] ELSE @,
                    !.custom_title =
                        IF custom_title # None THEN custom_title ELSE @,
                    !.custom_description =
                        IF custom_description # None THEN custom_description
                        ELSE @])
    ELSE Put(selections, entry_id,
             TOCSelection(entry_id,
                          IF included # None THEN included[1] ELSE TRUE,
                          custom_title, custom_description))

\* process_one with the stored selection never looked up
process_one_reset(selections, existing, entry_id, default_included) ==
    Put(selections, entry_id,
        TOCSelection(entry_id, default_included, None, None))

\* the branch of _process_entry for one entry
process_one(selections, existing, entry_id, default_included) ==
    IF entry_id \in DOMAIN existing
    THEN Put(selections, entry_id, existing[entry_id])
    ELSE Put(selections, entry_id,
             TOCSelection(entry_id, default_included, None, None))

\* _process_entry: the entry, then its children in order
RECURSIVE process_entry(_, _, _, _)
RECURSIVE process_entries(_, _, _, _)
process_entry(selections, existing, entry, default_included) ==
    process_entries(
        process_one(selections, existing, entry.id, default_included),
        existing, entry.children, default_included)

process_entries(selections, existing, entries, default_included) ==
    IF entries = <<>> THEN selections
    ELSE process_entries(
            process_entry(selections, existing, Head(entries),
                          default_included),
            existing, Tail(entries), default_included)

\* initialize_from_toc: the map that it saves and returns
initialized_selections(existing, entries, default_included) ==
    process_entries(EmptyMap, existing, entries, default_included)


(***************************************************************************)
(* The description cache                                                   *)
(***************************************************************************)
\* save_descriptions: a whole-file rewrite of descriptions.json
save_descriptions(descriptions) == DocFile(descriptions)

\* load_descriptions: {} for a missing file; json.load raises on an
\* unparseable file and on an empty one
load_descriptions(file) ==
    CASE file.kind = "absent"  -> Ok(EmptyMap)
      [] file.kind = "garbage" -> Raised("JSONDecodeError")
      [] file.kind = "empty"   -> Raised("JSONDecodeError")
      [] OTHER                 -> Ok(file.body)

\* updated_descriptions keeping the new descriptions only
updated_descriptions_new(existing, new_descriptions) == new_descriptions

\* update_descriptions, between its load and its save
updated_descriptions(existing, new_descriptions) ==
    Update(existing, new_descriptions)

(***************************************************************************)
(* Export files                                                            *)
(***************************************************************************)
ExportPaths == {[stem |-> "sel", suffix |-> x] : x \in {".yaml", ".yml", ".json"}}

NoExport == [path |-> None, fmt |-> "none", kind |-> "absent", body |-> EmptyMap]

\* export_file with custom_description left out of the written records
export_file_short(selections, output_path) ==
    [path |-> Some(output_path),
     fmt  |-> IF output_path.suffix \in {".yaml", ".yml"} THEN "yaml" ELSE "json",
     kind |-> "doc",
     body |-> [i \in DOMAIN selections |->
                  [included           |-> selections[i].included,
                   custom_title       |-> selections[i].custom_title,
                   custom_description |-> None]]]

\* export_selections: YAML for a .yaml/.yml path, JSON for any other
export_file(selections, output_path) ==
    [path |-> Some(output_path),
     fmt  |-> IF output_path.suffix \in {".yaml", ".yml"} THEN "yaml" ELSE "json",
     kind |-> "doc",
     body |-> DumpSelections(selections)]

\* import_selections: the parser is chosen by the suffix; yaml.safe_load
\* reads YAML and JSON text, json.load reads JSON text only
import_file(file, input_path) ==
    IF input_path.suffix \in {".yaml", ".yml"}
    THEN IF file.kind = "doc" THEN Ok(ParseSelections(file.body))
         ELSE Raised(IF file.kind = "empty" THEN "AttributeError" ELSE "YAMLError")
    ELSE IF file.kind = "doc" /\ file.fmt = "json"
         THEN Ok(ParseSelections(file.body))
         ELSE Raised("JSONDecodeError")

(***************************************************************************)
(* Input sets                                                              *)
(***************************************************************************)
Selections ==
    {TOCSelection(i, b, t, d) :
        i \in Ids, b \in BOOLEAN, t \in Opt(Titles), d \in Opt(Descrs)}

\* every in-memory selection map: each record is keyed by its entry_id
SelectionMaps ==
    UNION {{m \in [S -> Selections] : \A i \in S : m[i].entry_id = i} :
            S \in SUBSET Ids}

DescriptionMaps == UNION {[S -> Texts] : S \in SUBSET Ids}

(***************************************************************************)
(* Operations of one CLI process at a time                                 *)
(***************************************************************************)
Files == [sel |-> selFile, desc |-> descFile, x |-> xfile]

\* a CLI command runs from start to end before the next one starts
Idle == op = "none"

Did(name, a, r) ==
    /\ op' = name
    /\ arg' = a
    /\ ret' = r
    /\ pre' = Files

NoArg == [none |-> TRUE]

LoadSelections ==
    /\ Idle
    /\ Did("load_selections", NoArg, load_selections(selFile))
    /\ UNCHANGED <<selFile, descFile, xfile, exported>>

SaveSelections(selections) ==
    /\ Idle
    /\ selFile' = save_selections(selections)
    /\ Did("save_selections", [selections |-> selections], Ok(None))
    /\ UNCHANGED <<descFile, xfile, exported>>

UpdateSelection(entry_id, included, custom_title, custom_description) ==
    /\ Idle
    /\ LET l == load_selections(selFile)
           a == [entry_id |-> entry_id, included |-> included,
                 custom_title |-> custom_title,
                 custom_description |-> custom_description]
       IN  /\ IF l.raised
              THEN /\ UNCHANGED selFile
                   /\ Did("update_selection", a, l)
              ELSE LET selections ==
                           updated_selections(l.value, entry_id, included,
                                              custom_title, custom_description)
                   IN  /\ selFile' = save_selections(selections)
                       /\ Did("update_selection", a, Ok(selections[entry_id]))
           /\ UNCHANGED <<descFile, xfile, exported>>

InitializeFromToc(f, default_included) ==
    /\ Idle
    /\ LET l == load_selections(selFile)
           entries == OutlineOf(f)
           a == [entries |-> entries, default_included |-> default_included]
       IN  /\ IF l.raised
              THEN /\ UNCHANGED selFile
                   /\ Did("initialize_from_toc", a, l)
              ELSE LET selections ==
                           initialized_selections(l.value, entries,
                                                  default_included)
                   IN  /\ selFile' = save_selections(selections)
                       /\ Did("initialize_from_toc", a, Ok(selections))
           /\ UNCHANGED <<descFile, xfile, exported>>

LoadDescriptions ==
    /\ Idle
    /\ Did("load_descriptions", NoArg, load_descriptions(descFile))
    /\ UNCHANGED <<selFile, descFile, xfile, exported>>

SaveDescriptions(descriptions) ==
    /\ Idle
    /\ descFile' = save_descriptions(descriptions)
    /\ Did("save_descriptions", [descriptions |-> descriptions], Ok(None))
    /\ UNCHANGED <<selFile, xfile, exported>>

UpdateDescriptions(new_descriptions) ==
    /\ Idle
    /\ LET l == load_descriptions(descFile)
           a == [new_descriptions |-> new_descriptions]
       IN  /\ IF l.raised
              THEN /\ UNCHANGED descFile
                   /\ Did("update_descriptions", a, l)
              ELSE /\ descFile' =
                         save_descriptions(
                             updated_descriptions(l.value, new_descriptions))
                   /\ Did("update_descriptions", a, Ok(None))
           /\ UNCHANGED <<selFile, xfile, exported>>

\* clear: unlink the files of the configuration directory
Clear ==
    /\ Idle
    /\ selFile' = NoFile
    /\ descFile' = NoFile
    /\ Did("clear", NoArg, Ok(None))
    /\ UNCHANGED <<xfile, exported>>

ExportSelections(output_path) ==
    /\ Idle
    /\ LET l == load_selections(selFile)
           a == [path |-> output_path]
       IN  /\ IF l.raised
              THEN /\ UNCHANGED <<xfile, exported>>
                   /\ Did("export_selections", a, l)
              ELSE /\ xfile' = export_file(l.value, output_path)
                   /\ exported' = l.value
                   /\ Did("export_selections", a, Ok(None))
           /\ UNCHANGED <<selFile, descFile>>

\* ImportSelections merging the file into the live store
ImportSelectionsMerged(input_path) ==
    /\ Idle
    /\ xfile.path = Some(input_path)
    /\ LET l == import_file(xfile, input_path)
           a == [path |-> input_path]
       IN  IF l.raised
           THEN /\ UNCHANGED selFile
                /\ Did("import_selections", a, l)
           ELSE LET merged == Update(load_selections(selFile).value, l.value)
                IN  /\ selFile' = save_selections(merged)
                    /\ Did("import_selections", a, Ok(merged))
    /\ UNCHANGED <<descFile, xfile, exported>>

\* the CLI accepts only the path of an existing file
ImportSelections(input_path) ==
    /\ Idle
    /\ xfile.path = Some(input_path)
    /\ LET l == import_file(xfile, input_path)
           a == [path |-> input_path]
       IN  IF l.raised
           THEN /\ UNCHANGED selFile
                /\ Did("import_selections", a, l)
           ELSE /\ selFile' = save_selections(l.value)
                /\ Did("import_selections", a, l)
    /\ UNCHANGED <<descFile, xfile, exported>>

\* the command's process ends; what it held in memory is gone
Exit ==
    /\ op # "none"
    /\ op' = "none"
    /\ arg' = NoArg
    /\ ret' = Ok(None)
    /\ pre' = Files
    /\ UNCHANGED <<selFile, descFile, xfile, exported>>

(***************************************************************************)
(* Initial state: a fresh repository, nothing persisted, nothing parsed    *)
(***************************************************************************)
NoCommand ==
    /\ op = "none"
    /\ arg = NoArg
    /\ ret = Ok(None)
    /\ pre = [sel |-> NoFile, desc |-> NoFile, x |-> NoExport]

StoreInit ==
    /\ selFile = NoFile
    /\ descFile = NoFile
    /\ xfile = NoExport
    /\ exported = EmptyMap
    /\ NoCommand

ProcIdle ==
    /\ pc = [p \in Procs |-> "idle"]
    /\ snap = [p \in Procs |-> EmptyMap]
    /\ req = [p \in Procs |-> NoArg]
    /\ saved = <<>>
    /\ base = NoFile

\* no class body, no parameter list, no path and no repository at hand
ClassIdle   == class_body = <<>> /\ klass = None
ParamsIdle  == fn = None /\ params = None
ExcludeIdle == rel_path = "" /\ excluded = None
OptionsIdle == include_tests = FALSE /\ exclude_patterns = <<>>
ExtractIdle == repo = EmptyMap /\ walks = <<>> /\ runs = <<>>

\* no source file, no outline, no title, no session and no site at hand
IdsIdle   == src_file = None /\ parsed = <<>>
TocIdle   == mods = <<>> /\ toc = None /\ chosen = EmptyMap /\ filtered = None
TitleIdle == callee = None /\ rendered = None
SiteIdle  == session = None /\ site = None
OutlineIdle == IdsIdle /\ TocIdle /\ TitleIdle /\ SiteIdle

ParseIdle ==
    /\ tree = <<>>
    /\ include_private = FALSE
    /\ module = None
    /\ ClassIdle
    /\ ParamsIdle
    /\ ExcludeIdle
    /\ OptionsIdle
    /\ ExtractIdle
    /\ OutlineIdle

Init == StoreInit /\ ProcIdle /\ ParseIdle

\* the selection store driven by one process
Next ==
    /\ \/ LoadSelections
       \/ Idle /\ \E i \in Ids, b \in Opt(BOOLEAN), t \in Opt(Titles), d \in Opt(Descrs) :
              UpdateSelection(i, b, t, d)
       \/ Idle /\ \E f \in FlatOutlines, b \in BOOLEAN : InitializeFromToc(f, b)
       \/ Clear
       \/ Exit
    /\ UNCHANGED <<procVars, parseVars>>

Spec == Init /\ [][Next]_vars


(***************************************************************************)
(* Claims about the selection store under Spec                             *)
(***************************************************************************)
\* what load_selections returned before, and returns after, the last command
Before == load_selections(pre.sel).value
After  == load_selections(selFile).value

Initialized == op = "initialize_from_toc" /\ ~ret.raised

\* C1: initialize_from_toc returns a map that holds, for every id of the
\* outline at any level, the stored Selection unchanged if there was one and
\* otherwise a new Selection with included = default_included; the map is
\* persisted, so that load_selections afterwards returns that same map.
C1_InitializeKeepsStoredAndDefaultsNew ==
    Initialized =>
        /\ \A i \in OutlineIds(arg.entries) :
              /\ i \in DOMAIN ret.value
              /\ i \in DOMAIN Before => ret.value[i] = Before[i]
              /\ i \notin DOMAIN Before =>
                    /\ ret.value[i].entry_id = i
                    /\ ret.value[i].included = arg.default_included
        /\ load_selections(selFile) = Ok(ret.value)

\* a stored id excluded with a custom title is kept and a new id at a deeper
\* level gets the default
C1_Witness ==
    /\ Initialized
    /\ \E i, j \in OutlineIds(arg.entries) :
          /\ i \in DOMAIN Before
          /\ ~Before[i].included
          /\ Before[i].custom_title # None
          /\ ret.value[i] = Before[i]
          /\ j \notin DOMAIN Before
          /\ ret.value[j].included
    /\ \E k \in 1..Len(arg.entries) : arg.entries[k].children # <<>>

\* C2: a Selection stored for an id that is missing from the outline is still
\* in the persisted store, unchanged, after initialize_from_toc.
C2_OrphansAreRetained ==
    Initialized =>
        \A i \in DOMAIN Before \ OutlineIds(arg.entries) :
            /\ i \in DOMAIN After
            /\ After[i] = Before[i]

\* C3: update_selection changes only the supplied fields of the id's record,
\* leaves every other record as it was, creates a missing record from the
\* supplied fields with included = true unless supplied, and persists the map.
C3_UpdateIsPartial ==
    (op = "update_selection" /\ ~ret.raised) =>
        LET i == arg.entry_id
        IN  /\ DOMAIN After = DOMAIN Before \cup {i}
            /\ \A j \in DOMAIN Before \ {i} : After[j] = Before[j]
            /\ After[i].entry_id = i
            /\ i \in DOMAIN Before =>
                  /\ After[i].included =
                        IF arg.included = None THEN Before[i].included
                        ELSE arg.included[1]
                  /\ After[i].custom_title =
                        IF arg.custom_title = None THEN Before[i].custom_title
                        ELSE arg.custom_title
                  /\ After[i].custom_description =
                        IF arg.custom_description = None
                        THEN Before[i].custom_description
                        ELSE arg.custom_description
            /\ i \notin DOMAIN Before =>
                  /\ After[i].included =
                        (IF arg.included = None THEN TRUE ELSE arg.included[1])
                  /\ After[i].custom_title = arg.custom_title
                  /\ After[i].custom_description = arg.custom_description
            /\ ret.value = After[i]

\* a description is set on an excluded, titled record while another record
\* is stored
C3_Witness ==
    /\ op = "update_selection"
    /\ ~ret.raised
    /\ arg.entry_id \in DOMAIN Before
    /\ arg.included = None
    /\ arg.custom_title = None
    /\ arg.custom_description # None
    /\ ~Before[arg.entry_id].included
    /\ Before[arg.entry_id].custom_title # None
    /\ Before[arg.entry_id].custom_description = None
    /\ After[arg.entry_id].custom_title # None
    /\ DOMAIN Before # {arg.entry_id}


(***************************************************************************)
(* Two CLI processes, each running update_selection once on the same       *)
(* configuration directory.  A process reads the file at line 110 and      *)
(* rewrites it at line 129; nothing orders the two against another process. *)
(***************************************************************************)
\* the stores the commands of Spec leave behind
StoredFiles == {NoFile} \cup {save_selections(m) : m \in SelectionMaps}

ConcInit ==
    /\ NoCommand
    /\ ParseIdle
    /\ descFile = NoFile
    /\ xfile = NoExport
    /\ exported = EmptyMap
    /\ selFile \in StoredFiles
    /\ base = selFile
    /\ pc = [p \in Procs |-> "idle"]
    /\ snap = [p \in Procs |-> EmptyMap]
    /\ req = [p \in Procs |-> NoArg]
    /\ saved = <<>>

\* line 110: selections = self.load_selections()
ProcLoad(p, entry_id, included, custom_title, custom_description) ==
    /\ pc[p] = "idle"
    /\ snap' = [snap EXCEPT ![p] = load_selections(selFile).value]
    /\ req' = [req EXCEPT ![p] =
                  [entry_id |-> entry_id, included |-> included,
                   custom_title |-> custom_title,
                   custom_description |-> custom_description,
                   seen |-> Len(saved)]]
    /\ pc' = [pc EXCEPT ![p] = "loaded"]
    /\ UNCHANGED <<selFile, saved, base>>

\* ProcSave writing its own record into the file as it is now
ProcSaveRecord(p) ==
    /\ pc[p] = "loaded"
    /\ LET selections ==
               updated_selections(snap[p], req[p].entry_id, req[p].included,
                                  req[p].custom_title,
                                  req[p].custom_description)
       IN  /\ selFile' = save_selections(
                  Put(load_selections(selFile).value, req[p].entry_id,
                      selections[req[p].entry_id]))
           /\ snap' = [snap EXCEPT ![p] = selections]
    /\ saved' = Append(saved, p)
    /\ pc' = [pc EXCEPT ![p] = "done"]
    /\ UNCHANGED <<req, base>>

\* lines 112-129: change the loaded map, then rewrite the whole file with it
ProcSave(p) ==
    /\ pc[p] = "loaded"
    /\ LET selections ==
               updated_selections(snap[p], req[p].entry_id, req[p].included,
                                  req[p].custom_title,
                                  req[p].custom_description)
       IN  /\ selFile' = save_selections(selections)
           /\ snap' = [snap EXCEPT ![p] = selections]
    /\ saved' = Append(saved, p)
    /\ pc' = [pc EXCEPT ![p] = "done"]
    /\ UNCHANGED <<req, base>>

ConcNext ==
    /\ \/ \E p \in Procs, i \in Ids, b \in Opt(BOOLEAN), t \in Opt(Titles) :
             ProcLoad(p, i, b, t, None)
       \/ \E p \in Procs : ProcSave(p)
    /\ UNCHANGED <<descFile, xfile, exported, op, arg, ret, pre, parseVars>>

SpecConc == ConcInit /\ [][ConcNext]_vars

BothDone == \A p \in Procs : pc[p] = "done"

\* the record a process wrote for its id
Wrote(p) == snap[p][req[p].entry_id]

\* the record of id i in map m is the record of i in map n, or i is in neither
SameAt(m, n, i) ==
    IF i \in DOMAIN n THEN i \in DOMAIN m /\ m[i] = n[i]
    ELSE i \notin DOMAIN m

\* C4: two update_selection runs on different ids.  If both loaded before
\* either saved, the final store lacks the update of the one that saved
\* first: its id's record is as it was before both ran, and the other's
\* update is there.  If the second loaded after the first saved, both
\* updates are in the final store.
C4_LostUpdateWhenInterleaved ==
    (BothDone /\ req[saved[1]].entry_id # req[saved[2]].entry_id) =>
        LET first  == saved[1]
            second == saved[2]
            final  == load_selections(selFile).value
        IN  /\ final[req[second].entry_id] = Wrote(second)
            /\ req[second].seen = 0 =>
                   SameAt(final, load_selections(base).value,
                          req[first].entry_id)
            /\ req[second].seen = 1 =>
                   /\ req[first].entry_id \in DOMAIN final
                   /\ final[req[first].entry_id] = Wrote(first)

\* interleaved runs after which a record the first process created is gone
C4_Witness ==
    /\ BothDone
    /\ req[saved[1]].entry_id # req[saved[2]].entry_id
    /\ req[saved[2]].seen = 0
    /\ req[saved[1]].entry_id \notin DOMAIN load_selections(base).value
    /\ req[saved[1]].entry_id \notin DOMAIN load_selections(selFile).value
    /\ req[saved[1]].entry_id \in DOMAIN snap[saved[1]]

\* one run after the other: the records both processes created are stored
C4_WitnessSequential ==
    /\ BothDone
    /\ req[saved[1]].entry_id # req[saved[2]].entry_id
    /\ req[saved[2]].seen = 1
    /\ load_selections(base).value = EmptyMap
    /\ DOMAIN load_selections(selFile).value = Ids


(***************************************************************************)
(* Persisted files damaged from outside the program (a torn write, a bad   *)
(* hand edit): the file is left unparseable or empty.                      *)
(***************************************************************************)
DamageSelections(f) ==
    /\ Idle
    /\ selFile.kind = "doc"
    /\ selFile' = f
    /\ UNCHANGED <<descFile, xfile, exported, op, arg, ret, pre>>

DamageDescriptions(f) ==
    /\ Idle
    /\ descFile.kind = "doc"
    /\ descFile' = f
    /\ UNCHANGED <<selFile, xfile, exported, op, arg, ret, pre>>

CorruptNext ==
    /\ \/ LoadSelections
       \/ LoadDescriptions
       \/ Idle /\ \E f \in FlatOutlines, b \in BOOLEAN : InitializeFromToc(f, b)
       \/ Idle /\ \E d \in DescriptionMaps : UpdateDescriptions(d)
       \/ Idle /\ \E i \in Ids, b \in Opt(BOOLEAN) :
                     UpdateSelection(i, b, None, None)
       \/ \E f \in {GarbageFile, EmptyFile} : DamageSelections(f)
       \/ \E f \in {GarbageFile, EmptyFile} : DamageDescriptions(f)
       \/ Exit
    /\ UNCHANGED <<procVars, parseVars>>

SpecCorrupt == Init /\ [][CorruptNext]_vars

Malformed(file) == file.kind \in {"garbage", "empty"}

\* C5: loading a malformed selections file or descriptions file yields an
\* empty store and no error, and an initialize_from_toc that follows
\* proceeds with the defaults.
C5_MalformedFileLoadsAsEmpty ==
    /\ (op = "load_selections" /\ Malformed(pre.sel)) => ret = Ok(EmptyMap)
    /\ (op = "load_descriptions" /\ Malformed(pre.desc)) => ret = Ok(EmptyMap)
    /\ (op = "initialize_from_toc" /\ Malformed(pre.sel)) =>
          /\ ~ret.raised
          /\ \A i \in OutlineIds(arg.entries) :
                ret.value[i].included = arg.default_included


(***************************************************************************)
(* Export and import of the selection map                                  *)
(***************************************************************************)
XferNext ==
    /\ \/ Idle /\ \E i \in Ids, b \in Opt(BOOLEAN), t \in Opt(Titles),
                     d \in Opt(Descrs) : UpdateSelection(i, b, t, d)
       \/ \E path \in ExportPaths : ExportSelections(path)
       \/ \E path \in ExportPaths : ImportSelections(path)
       \/ Clear
       \/ Exit
    /\ UNCHANGED <<procVars, parseVars>>

SpecXfer == Init /\ [][XferNext]_vars

Imported == op = "import_selections" /\ ~ret.raised

\* C6: after import_selections the live store holds exactly the selections
\* of the imported file; an id that was in the live store and is not in the
\* file is gone; the returned map is the persisted map.
C6_ImportReplaces ==
    Imported =>
        /\ DOMAIN After = DOMAIN xfile.body
        /\ \A i \in DOMAIN After :
              /\ After[i].entry_id = i
              /\ After[i].included = xfile.body[i].included
              /\ After[i].custom_title = xfile.body[i].custom_title
              /\ After[i].custom_description = xfile.body[i].custom_description
        /\ \A i \in DOMAIN Before \ DOMAIN xfile.body : i \notin DOMAIN After
        /\ ret.value = After

\* an id of the live store that the file lacks is dropped, and an id of the
\* file that the live store held differently is overwritten
C6_Witness ==
    /\ Imported
    /\ \E i \in DOMAIN Before : i \notin DOMAIN xfile.body /\ i \notin DOMAIN After
    /\ \E j \in DOMAIN xfile.body :
          /\ j \notin DOMAIN Before
          /\ ~After[j].included
          /\ After[j].custom_description # None

\* C7: the map exported to a file is the live map again after that file is
\* imported, whatever happened to the live store in between, for a YAML
\* and for a JSON file; the import of an exported file does not fail, and
\* export leaves the live store as it was.
C7_ExportImportRoundTrip ==
    /\ op = "import_selections" => ~ret.raised /\ After = exported
    /\ op = "export_selections" =>
          /\ ~ret.raised
          /\ selFile = pre.sel
          /\ exported = Before

\* a JSON export is imported over a live store that was changed meanwhile
C7_Witness ==
    /\ Imported
    /\ arg.path.suffix = ".json"
    /\ Before # exported
    /\ After = exported
    /\ \E i \in DOMAIN exported :
          /\ ~exported[i].included
          /\ exported[i].custom_title # None
          /\ exported[i].custom_description # None
          /\ i \in DOMAIN Before
          /\ Before[i].included

\* the same for a YAML export
C7_WitnessYaml ==
    /\ Imported
    /\ arg.path.suffix = ".yml"
    /\ xfile.fmt = "yaml"
    /\ Before # exported
    /\ After = exported
    /\ exported # EmptyMap


(***************************************************************************)
(* The description cache next to the selection map                         *)
(***************************************************************************)
\* the maps of records without custom title and description
PlainMaps ==
    {m \in SelectionMaps :
        \A i \in DOMAIN m :
            m[i].custom_title = None /\ m[i].custom_description = None}

YamlPath == [stem |-> "sel", suffix |-> ".yaml"]

DescNext ==
    /\ \/ LoadDescriptions
       \/ Idle /\ \E d \in DescriptionMaps : SaveDescriptions(d)
       \/ Idle /\ \E d \in DescriptionMaps : UpdateDescriptions(d)
       \/ Idle /\ \E m \in PlainMaps : SaveSelections(m)
       \/ Idle /\ \E i \in Ids, b \in Opt(BOOLEAN) :
                     UpdateSelection(i, b, None, None)
       \/ Idle /\ \E f \in FlatOutlines, b \in BOOLEAN : InitializeFromToc(f, b)
       \/ ExportSelections(YamlPath)
       \/ ImportSelections(YamlPath)
       \/ Exit
    /\ UNCHANGED <<procVars, parseVars>>

SpecDesc == Init /\ [][DescNext]_vars

DescBefore == load_descriptions(pre.desc).value
DescAfter  == load_descriptions(descFile).value

\* C8: update_descriptions leaves the cache equal to the old cache
\* overridden by the new descriptions; save_descriptions and
\* update_descriptions do not change the persisted selection map; saving,
\* updating, initializing and importing selections do not change the
\* persisted description cache.
C8_DescriptionsMergeAndAreDecoupled ==
    /\ (op = "update_descriptions" /\ ~ret.raised) =>
          /\ DOMAIN DescAfter = DOMAIN DescBefore \cup DOMAIN arg.new_descriptions
          /\ \A i \in DOMAIN DescAfter :
                DescAfter[i] = IF i \in DOMAIN arg.new_descriptions
                               THEN arg.new_descriptions[i]
                               ELSE DescBefore[i]
    /\ op \in {"save_descriptions", "update_descriptions"} => selFile = pre.sel
    /\ op \in {"save_selections", "update_selection", "initialize_from_toc",
               "import_selections"} => descFile = pre.desc

\* one cached text is kept, one is overridden, and a selection map is stored
C8_Witness ==
    /\ op = "update_descriptions"
    /\ ~ret.raised
    /\ \E i, j \in DOMAIN DescBefore :
          /\ i \notin DOMAIN arg.new_descriptions
          /\ DescAfter[i] = DescBefore[i]
          /\ j \in DOMAIN arg.new_descriptions
          /\ arg.new_descriptions[j] # DescBefore[j]
          /\ DescAfter[j] = arg.new_descriptions[j]
    /\ \E i \in DOMAIN After : ~After[i].included

\* a selection map is imported while descriptions are cached
C8_WitnessImport ==
    /\ Imported
    /\ DescAfter # EmptyMap
    /\ After # Before


(***************************************************************************)
(* PythonParser: the module-level visibility policy.  A name is the        *)
(* sequence of its characters; a statement is an ast node with the fields  *)
(* parse_file reads, and stands on the line of its position in the file.   *)
(***************************************************************************)
NameA      == <<"A">>
NameB      == <<"B">>
NamePriv   == <<"_", "c">>
NameDunder == <<"_", "_", "v", "_", "_">>
NameAll    == <<"_", "_", "a", "l", "l", "_", "_">>

\* str.startswith
StartsWith(name, prefix) ==
    /\ Len(name) >= Len(prefix)
    /\ \A k \in 1..Len(prefix) : name[k] = prefix[k]

NoValue == [type |-> "None", elts |-> <<>>]

Def(type, name) ==
    [type |-> type, name |-> name, targets |-> <<>>, value |-> NoValue]

Name(id)   == [type |-> "Name", id |-> id]
TupleTarget == [type |-> "Tuple", id |-> <<>>]
Attribute   == [type |-> "Attribute", id |-> <<>>]

Assign(targets, value) ==
    [type |-> "Assign", name |-> <<>>, targets |-> targets, value |-> value]

AnnAssign(target) ==
    [type |-> "AnnAssign", name |-> <<>>, targets |-> <<target>>,
     value |-> NoValue]

\* a constant of a list display: a string, or something else (is_str false)
Str(name) == [type |-> "Constant", is_str |-> TRUE, value |-> name]
NotStr    == [type |-> "Constant", is_str |-> FALSE, value |-> <<>>]
Num       == [type |-> "Constant", elts |-> <<>>]
Display(type, elts) == [type |-> type, elts |-> elts]

Statements ==
    {Def("ClassDef", n) : n \in {NameA, NamePriv}}
    \cup {Def("FunctionDef", n) : n \in {NameA, NameB, NamePriv, NameDunder}}
    \cup {Def("AsyncFunctionDef", NameB), Def("Import", <<>>)}
    \cup {Assign(<<Name(n)>>, Num) : n \in {NameB, NamePriv, NameDunder}}
    \cup {Assign(<<Name(NameA), Name(NamePriv)>>, Num),
          Assign(<<TupleTarget>>, Num),
          AnnAssign(Name(NamePriv)),
          AnnAssign(Attribute)}
    \cup {Assign(<<Name(NameAll)>>, v) :
            v \in {Display("List", <<Str(NameA)>>),
                   Display("List", <<Str(NamePriv), NotStr>>),
                   Display("Tuple", <<Str(NameA), Str(NameB)>>),
                   Display("Call", <<>>)}}

Trees == UNION {[1..n -> Statements] : n \in 0..MaxDecls}

\* _extract_all_exports: the strings of the first list or tuple display
\* assigned to __all__, None (here <<>>) when there is none
RECURSIVE StrValues(_)
StrValues(elts) ==
    IF elts = <<>> THEN <<>>
    ELSE (IF Head(elts).type = "Constant" /\ Head(elts).is_str
          THEN <<Head(elts).value>> ELSE <<>>) \o StrValues(Tail(elts))

BindsAll(node) ==
    /\ node.type = "Assign"
    /\ \E k \in 1..Len(node.targets) :
          node.targets[k].type = "Name" /\ node.targets[k].id = NameAll
    /\ node.value.type \in {"List", "Tuple"}

RECURSIVE extract_all_exports(_)
extract_all_exports(nodes) ==
    IF nodes = <<>> THEN None
    ELSE IF BindsAll(Head(nodes))
         THEN Some(StrValues(Head(nodes).value.elts))
         ELSE extract_all_exports(Tail(nodes))

InList(name, list) == \E k \in 1..Len(list) : list[k] = name

\* should_include with the naming convention tested before __all__
should_include_naming(private, name, all_exports) ==
    IF private THEN TRUE
    ELSE IF StartsWith(name, <<"_">>) /\ ~StartsWith(name, <<"_", "_">>)
         THEN FALSE
         ELSE IF all_exports # None THEN InList(name, all_exports[1])
              ELSE TRUE

\* should_include with include_private never consulted
should_include_public(private, name, all_exports) ==
    IF all_exports # None THEN InList(name, all_exports[1])
    ELSE IF StartsWith(name, <<"_">>) /\ ~StartsWith(name, <<"_", "_">>)
         THEN FALSE
         ELSE TRUE

\* _should_include
should_include(private, name, all_exports) ==
    IF all_exports # None THEN InList(name, all_exports[1])
    ELSE IF private THEN TRUE
         ELSE IF StartsWith(name, <<"_">>) /\ ~StartsWith(name, <<"_", "_">>)
              THEN FALSE
              ELSE TRUE

Component(name, lineno) == [name |-> name, line_number |-> lineno]

\* the loop "for target in node.targets" of parse_file
RECURSIVE parse_targets(_, _, _, _, _)
parse_targets(constants, targets, lineno, private, all_exports) ==
    IF targets = <<>> THEN constants
    ELSE parse_targets(
            IF /\ Head(targets).type = "Name"
               /\ should_include(private, Head(targets).id, all_exports)
            THEN Append(constants, Component(Head(targets).id, lineno))
            ELSE constants,
            Tail(targets), lineno, private, all_exports)

\* the loop of parse_file over the statements of the module, from line k on
RECURSIVE parse_nodes(_, _, _, _)
parse_nodes(m, nodes, k, private) ==
    IF k > Len(nodes) THEN m
    ELSE LET node == nodes[k]
             inc(name) == should_include(private, name, m.all_exports)
         IN  parse_nodes(
               CASE node.type = "ClassDef" ->
                      IF inc(node.name)
                      THEN [m EXCEPT !.classes =
                               Append(@, Component(node.name, k))]
                      ELSE m
                 [] node.type \in {"FunctionDef", "AsyncFunctionDef"} ->
                      IF inc(node.name)
                      THEN [m EXCEPT !.functions =
                               Append(@, Component(node.name, k))]
                      ELSE m
                 [] node.type = "Assign" ->
                      [m EXCEPT !.constants =
                          parse_targets(@, node.targets, k, private,
                                        m.all_exports)]
                 [] node.type = "AnnAssign"
                      /\ node.targets[1].type = "Name" ->
                      IF inc(node.targets[1].id)
                      THEN [m EXCEPT !.constants =
                               Append(@, Component(node.targets[1].id, k))]
                      ELSE m
                 [] OTHER -> m,
               nodes, k + 1, private)

\* parse_file on a file that parses: the ModuleComponent
parse_file(nodes, private) ==
    parse_nodes([all_exports |-> extract_all_exports(nodes),
                 classes |-> <<>>, functions |-> <<>>, constants |-> <<>>],
                nodes, 1, private)

ParseInit ==
    /\ StoreInit
    /\ ProcIdle
    /\ tree \in Trees
    /\ include_private \in BOOLEAN
    /\ module = None
    /\ ClassIdle
    /\ ParamsIdle
    /\ ExcludeIdle
    /\ OptionsIdle
    /\ ExtractIdle
    /\ OutlineIdle

ParseFile ==
    /\ module = None
    /\ module' = Some(parse_file(tree, include_private))
    /\ UNCHANGED <<tree, include_private>>

ParseNext ==
    /\ ParseFile
    /\ UNCHANGED <<storeVars, procVars, classVars, paramVars, excludeVars,
                   optionVars, extractVars,
                   outlineVars>>

SpecParse == ParseInit /\ [][ParseNext]_vars

\* the module declares an export list: a list or tuple display bound to __all__
DeclaresExportList == \E k \in 1..Len(tree) : BindsAll(tree[k])

\* the names that the statement on line k declares, with the list of the
\* module record they are extracted into
Declared(k) ==
    CASE tree[k].type = "ClassDef" -> {<<tree[k].name, "classes">>}
      [] tree[k].type \in {"FunctionDef", "AsyncFunctionDef"} ->
            {<<tree[k].name, "functions">>}
      [] tree[k].type \in {"Assign", "AnnAssign"} ->
            {<<tree[k].targets[j].id, "constants">> :
                j \in {j \in 1..Len(tree[k].targets) :
                          tree[k].targets[j].type = "Name"}}
      [] OTHER -> {}

\* the declaration of name n on line k is in list l of the parsed module
Extracted(n, l, k) ==
    LET list == CASE l = "classes"   -> module[1].classes
                  [] l = "functions" -> module[1].functions
                  [] OTHER           -> module[1].constants
    IN  \E j \in 1..Len(list) : list[j] = Component(n, k)

\* C9: when the module declares an export list, a module-level class,
\* function or name assignment is extracted iff its name is in that list,
\* whatever its underscores and whatever include_private is.
C9_ExportListIsTheOnlyFilter ==
    (module # None /\ DeclaresExportList) =>
        /\ module[1].all_exports # None
        /\ \A k \in 1..Len(tree) : \A d \in Declared(k) :
              Extracted(d[1], d[2], k) <=>
                  InList(d[1], module[1].all_exports[1])

\* __all__ = ["A"] with a public B and a private _c: B is left out although
\* include_private is on, and A is extracted
C9_Witness ==
    /\ module # None
    /\ include_private
    /\ module[1].all_exports = Some(<<NameA>>)
    /\ \E k \in 1..Len(tree) : Extracted(NameA, "functions", k)
    /\ \E k \in 1..Len(tree) :
          /\ <<NameB, "functions">> \in Declared(k)
          /\ ~Extracted(NameB, "functions", k)

\* a listed private name is extracted with include_private off
C9_WitnessListedPrivate ==
    /\ module # None
    /\ ~include_private
    /\ \E k \in 1..Len(tree) : Extracted(NamePriv, "classes", k)

SingleUnderscore(n) ==
    /\ Len(n) >= 1
    /\ n[1] = "_"
    /\ ~(Len(n) >= 2 /\ n[2] = "_")

\* C10: with no export list, a module-level name with a single leading
\* underscore is extracted iff include_private is on, and with
\* include_private on every module-level class, function and name
\* assignment is extracted.
C10_UnderscorePolicy ==
    (module # None /\ ~DeclaresExportList) =>
        \A k \in 1..Len(tree) : \A d \in Declared(k) :
            /\ SingleUnderscore(d[1]) =>
                  (Extracted(d[1], d[2], k) <=> include_private)
            /\ include_private => Extracted(d[1], d[2], k)

\* include_private off: a private function is left out next to a public one
C10_Witness ==
    /\ module # None
    /\ ~DeclaresExportList
    /\ ~include_private
    /\ \E k \in 1..Len(tree) :
          /\ <<NamePriv, "functions">> \in Declared(k)
          /\ ~Extracted(NamePriv, "functions", k)
    /\ \E k \in 1..Len(tree) : Extracted(NameA, "functions", k)

\* include_private on: a private class and a dunder constant are extracted
C10_WitnessPrivateOn ==
    /\ module # None
    /\ ~DeclaresExportList
    /\ include_private
    /\ \E k \in 1..Len(tree) : Extracted(NamePriv, "classes", k)
    /\ \E k \in 1..Len(tree) : Extracted(NameDunder, "constants", k)

(***************************************************************************)
(* PythonParser: class members.  _should_include_method, the loop of       *)
(* _parse_class over the class body, and the promotion of properties.      *)
(***************************************************************************)
NameInit  == <<"_", "_", "i", "n", "i", "t", "_", "_">>
NameNew   == <<"_", "_", "n", "e", "w", "_", "_">>
NameCall  == <<"_", "_", "c", "a", "l", "l", "_", "_">>
NameEnter == <<"_", "_", "e", "n", "t", "e", "r", "_", "_">>
NameExit  == <<"_", "_", "e", "x", "i", "t", "_", "_">>

special_methods == {NameInit, NameNew, NameCall, NameEnter, NameExit}

\* C11: with no export list and include_private off, a module-level name
\* that starts with two underscores and is not one of the special method
\* names is not extracted.
C11_DunderExcludedAtModuleLevel ==
    (module # None /\ ~DeclaresExportList /\ ~include_private) =>
        \A k \in 1..Len(tree) : \A d \in Declared(k) :
            (StartsWith(d[1], <<"_", "_">>) /\ d[1] \notin special_methods)
                => ~Extracted(d[1], d[2], k)

MaxMembers == 3      \* statements in the body of a parsed class

\* a function definition of a class body, with its decorator expressions
MethodDef(type, name, decorator_list) ==
    [type |-> type, name |-> name, decorator_list |-> decorator_list,
     targets |-> <<>>]

\* decorator expressions: a bare name, or an attribute reference
DecoName(id)          == [type |-> "Name", id |-> id, attr |-> ""]
DecoAttr(value, attr) == [type |-> "Attribute", id |-> value, attr |-> attr]

ClassAssign(targets) == [type |-> "Assign", name |-> <<>>,
                         decorator_list |-> <<>>, targets |-> targets]
ClassAnnAssign(target) == [type |-> "AnnAssign", name |-> <<>>,
                           decorator_list |-> <<>>, targets |-> <<target>>]
Pass == [type |-> "Pass", name |-> <<>>, decorator_list |-> <<>>,
         targets |-> <<>>]

MemberNames == {NameA, NamePriv, NameDunder, NameInit}

ClassItems ==
    {MethodDef("FunctionDef", n, d) :
        n \in MemberNames, d \in {<<>>, <<DecoName("property")>>}}
    \cup {MethodDef("FunctionDef", NameA, <<DecoAttr("A", "setter")>>),
          MethodDef("FunctionDef", NameB, <<DecoName("staticmethod")>>),
          MethodDef("FunctionDef", NameB,
                    <<DecoName("classmethod"), DecoName("property")>>),
          MethodDef("AsyncFunctionDef", NameB, <<>>)}
    \cup {ClassAnnAssign(Name(NameA)), ClassAnnAssign(Name(NamePriv)),
          ClassAnnAssign(Attribute)}
    \cup {ClassAssign(<<Name(NameA), Name(NamePriv)>>),
          ClassAssign(<<Name(NameDunder)>>),
          ClassAssign(<<TupleTarget>>),
          Pass}

ClassBodies == UNION {[1..n -> ClassItems] : n \in 0..MaxMembers}

\* the class whose body is parsed: "class K:" on line 1 of m.py, the k-th
\* statement of its body on line 1 + k
ClassFile == "m.py"
ClassName == <<"K">>
ClassLine == 1

\* generate_id with the line left out of the hashed text
generate_id_unlined(file_path, name, line_number) ==
    [file_path |-> file_path, name |-> name, line_number |-> 0]

\* generate_id: the text that is hashed stands for the hash
generate_id(file_path, name, line_number) ==
    [file_path |-> file_path, name |-> name, line_number |-> line_number]

\* _get_decorator_name: ast.unparse of the decorator expression
get_decorator_name(d) ==
    IF d.type = "Name" THEN d.id ELSE d.id \o "." \o d.attr

\* _should_include_method with the module-level naming rule
should_include_method_module(private, name) ==
    IF private THEN TRUE
    ELSE IF name \in special_methods THEN TRUE
         ELSE IF StartsWith(name, <<"_">>) /\ ~StartsWith(name, <<"_", "_">>)
              THEN FALSE
              ELSE TRUE

\* _should_include_method
should_include_method(private, name) ==
    IF private THEN TRUE
    ELSE IF name \in special_methods THEN TRUE
         ELSE IF StartsWith(name, <<"_">>) THEN FALSE
              ELSE TRUE

\* "property" in decorators, with the test never succeeding
is_property_never(decorators) == FALSE

\* "property" in decorators
is_property(decorators) == InList("property", decorators)

\* _parse_method: the MethodComponent
parse_method(node, lineno, file_path, parent_class) ==
    LET decorators == [j \in 1..Len(node.decorator_list) |->
                          get_decorator_name(node.decorator_list[j])]
    IN  [id |-> generate_id(file_path, parent_class \o <<".">> \o node.name,
                            lineno),
         name |-> node.name,
         line_number |-> lineno,
         is_async |-> node.type = "AsyncFunctionDef",
         decorators |-> decorators,
         is_static |-> InList("staticmethod", decorators),
         is_classmethod |-> InList("classmethod", decorators),
         is_property |-> is_property(decorators),
         parent_class |-> parent_class]

\* the PropertyComponent built from a method, from an annotated assignment
\* or from an assignment
PropertyComponent(id, name, lineno, is_class_var) ==
    [id |-> id, name |-> name, line_number |-> lineno,
     is_class_var |-> is_class_var]

\* the loop "for target in item.targets" of _parse_class
RECURSIVE parse_class_targets(_, _, _, _, _)
parse_class_targets(class_variables, targets, lineno, file_path, private) ==
    IF targets = <<>> THEN class_variables
    ELSE parse_class_targets(
            IF /\ Head(targets).type = "Name"
               /\ should_include_method(private, Head(targets).id)
            THEN Append(class_variables,
                        PropertyComponent(
                            generate_id(file_path, Head(targets).id, lineno),
                            Head(targets).id, lineno, TRUE))
            ELSE class_variables,
            Tail(targets), lineno, file_path, private)

\* the loop of _parse_class over the class body, from its k-th statement on
RECURSIVE parse_class_body(_, _, _, _, _)
parse_class_body(c, items, k, file_path, private) ==
    IF k > Len(items) THEN c
    ELSE LET item == items[k]
             lineno == c.line_number + k
             method == parse_method(item, lineno, file_path, c.name)
         IN  parse_class_body(
               CASE item.type \in {"FunctionDef", "AsyncFunctionDef"} ->
                      IF should_include_method(private, item.name)
                      THEN IF method.is_property
                           THEN [c EXCEPT !.properties =
                                   Append(@, PropertyComponent(
                                                 method.id, method.name,
                                                 method.line_number, FALSE))]
                           ELSE [c EXCEPT !.methods = Append(@, method)]
                      ELSE c
                 [] item.type = "AnnAssign"
                      /\ item.targets[1].type = "Name" ->
                      IF should_include_method(private, item.targets[1].id)
                      THEN [c EXCEPT !.class_variables =
                              Append(@, PropertyComponent(
                                 generate_id(file_path, item.targets[1].id,
                                             lineno),
                                 item.targets[1].id, lineno, TRUE))]
                      ELSE c
                 [] item.type = "Assign" ->
                      [c EXCEPT !.class_variables =
                          parse_class_targets(@, item.targets, lineno,
                                              file_path, private)]
                 [] OTHER -> c,
               items, k + 1, file_path, private)

\* _parse_class: the ClassComponent
parse_class(name, lineno, items, file_path, private) ==
    parse_class_body([id |-> generate_id(file_path, name, lineno),
                      name |-> name, line_number |-> lineno,
                      methods |-> <<>>, properties |-> <<>>,
                      class_variables |-> <<>>],
                     items, 1, file_path, private)

ClassInit ==
    /\ StoreInit
    /\ ProcIdle
    /\ tree = <<>>
    /\ module = None
    /\ include_private \in BOOLEAN
    /\ class_body \in ClassBodies
    /\ klass = None
    /\ ParamsIdle
    /\ ExcludeIdle
    /\ OptionsIdle
    /\ ExtractIdle
    /\ OutlineIdle

ParseClass ==
    /\ klass = None
    /\ klass' = Some(parse_class(ClassName, ClassLine, class_body,
                                 ClassFile, include_private))
    /\ UNCHANGED <<class_body, include_private>>

ClassNext ==
    /\ ParseClass
    /\ UNCHANGED <<storeVars, procVars, tree, module, paramVars,
                   excludeVars, optionVars, extractVars,
                   outlineVars>>

SpecClass == ClassInit /\ [][ClassNext]_vars

\* the members that the k-th statement of the class body declares, with the
\* kind of record they are extracted as
DeclaredMembers(k) ==
    CASE class_body[k].type \in {"FunctionDef", "AsyncFunctionDef"} ->
            {<<class_body[k].name, "function">>}
      [] class_body[k].type \in {"Assign", "AnnAssign"} ->
            {<<class_body[k].targets[j].id, "variable">> :
                j \in {j \in 1..Len(class_body[k].targets) :
                          class_body[k].targets[j].type = "Name"}}
      [] OTHER -> {}

\* the entries of a list of records that carry name n and stand on line l
EntriesOf(list, n, l) ==
    {j \in 1..Len(list) : list[j].name = n /\ list[j].line_number = l}

\* the member n declared by the k-th statement is in the parsed class
Recorded(n, kind, k) ==
    IF kind = "function"
    THEN \/ EntriesOf(klass[1].methods, n, ClassLine + k) # {}
         \/ EntriesOf(klass[1].properties, n, ClassLine + k) # {}
    ELSE EntriesOf(klass[1].class_variables, n, ClassLine + k) # {}

\* C12: a class member (method, annotated or assigned class-level name) is
\* extracted iff include_private is on, or its name is one of __init__,
\* __new__, __call__, __enter__, __exit__, or its name does not start with
\* an underscore.
C12_MemberVisibility ==
    klass # None =>
        \A k \in 1..Len(class_body) : \A d \in DeclaredMembers(k) :
            Recorded(d[1], d[2], k) <=>
                \/ include_private
                \/ d[1] \in {NameInit, NameNew, NameCall, NameEnter, NameExit}
                \/ d[1][1] # "_"

\* include_private off: __init__ is extracted next to a public method while
\* a dunder method, a private method and a private annotated name are not
C12_Witness ==
    /\ klass # None
    /\ ~include_private
    /\ \E k \in 1..Len(class_body) : Recorded(NameInit, "function", k)
    /\ \E k \in 1..Len(class_body) :
          /\ class_body[k].type = "FunctionDef"
          /\ class_body[k].name \in {NameDunder, NamePriv}
          /\ ~Recorded(class_body[k].name, "function", k)
    /\ \E k \in 1..Len(class_body) :
          /\ <<NamePriv, "variable">> \in DeclaredMembers(k)
          /\ ~Recorded(NamePriv, "variable", k)

\* include_private on: a dunder method and a private name are extracted
C12_WitnessPrivateOn ==
    /\ klass # None
    /\ include_private
    /\ \E k \in 1..Len(class_body) : Recorded(NameDunder, "function", k)
    /\ \E k \in 1..Len(class_body) : Recorded(NamePriv, "variable", k)

\* the k-th statement of the class body is a function definition that
\* passes the member visibility policy
VisibleDef(k) ==
    /\ class_body[k].type \in {"FunctionDef", "AsyncFunctionDef"}
    /\ should_include_method(include_private, class_body[k].name)

\* one of the decorators of the k-th statement reads "property"
DecoratedAsProperty(k) ==
    \E j \in 1..Len(class_body[k].decorator_list) :
        get_decorator_name(class_body[k].decorator_list[j]) = "property"

\* C13: every function definition of a class body that passes the member
\* visibility policy yields exactly one record, a Property record in
\* properties with the method's id, name and line when it is decorated as a
\* property and a Method record in methods otherwise; it is never in both
\* lists or in neither, and the two lists hold nothing else.
C13_PropertyOrMethod ==
    klass # None =>
        LET methods    == klass[1].methods
            properties == klass[1].properties
        IN  /\ \A k \in 1..Len(class_body) : VisibleDef(k) =>
                  LET name == class_body[k].name
                      line == ClassLine + k
                      id   == generate_id(ClassFile,
                                          ClassName \o <<".">> \o name, line)
                      inM  == {j \in 1..Len(methods) : methods[j].id = id}
                      inP  == {j \in 1..Len(properties) :
                                  properties[j].id = id}
                  IN  IF DecoratedAsProperty(k)
                      THEN /\ Cardinality(inP) = 1
                           /\ inM = {}
                           /\ \A j \in inP :
                                 /\ properties[j].name = name
                                 /\ properties[j].line_number = line
                      ELSE /\ Cardinality(inM) = 1
                           /\ inP = {}
                           /\ \A j \in inM :
                                 /\ methods[j].name = name
                                 /\ methods[j].line_number = line
                                 /\ ~methods[j].is_property
            /\ Len(methods) + Len(properties) =
                  Cardinality({k \in 1..Len(class_body) : VisibleDef(k)})

\* a property A and its setter, a second definition of the name A: A is a
\* Property record on the line of the getter and a Method record on the
\* line of the setter
C13_Witness ==
    /\ klass # None
    /\ \E k, l \in 1..Len(class_body) :
          /\ k # l
          /\ VisibleDef(k) /\ DecoratedAsProperty(k)
          /\ VisibleDef(l) /\ ~DecoratedAsProperty(l)
          /\ class_body[k].name = NameA
          /\ class_body[l].name = NameA
          /\ EntriesOf(klass[1].properties, NameA, ClassLine + k) # {}
          /\ EntriesOf(klass[1].methods, NameA, ClassLine + l) # {}

\* a property that does not pass the policy yields no record at all
C13_WitnessHidden ==
    /\ klass # None
    /\ \E k \in 1..Len(class_body) :
          /\ ~VisibleDef(k)
          /\ class_body[k].type = "FunctionDef"
          /\ DecoratedAsProperty(k)
    /\ klass[1].properties = <<>>
    /\ klass[1].methods # <<>>

(***************************************************************************)
(* PythonParser._parse_parameters.  An ast.arguments node has the fields   *)
(* posonlyargs, args, defaults (for the last of posonlyargs and args       *)
(* together), vararg, kwonlyargs, kw_defaults (one per keyword-only        *)
(* parameter, None for "no default") and kwarg.  Annotations are left out. *)
(***************************************************************************)
MaxArgs == 3         \* parameters in args of a parsed signature

ArgNames == {"self", "cls", "a", "b"}

\* default expressions; ast.unparse gives their text
Constant(text) == [type |-> "Constant", text |-> text]
Exprs == {Constant("1"), Constant("None")}

arguments(posonlyargs, args, defaults, vararg, kwonlyargs, kw_defaults, kwarg) ==
    [posonlyargs |-> posonlyargs, args |-> args, defaults |-> defaults,
     vararg |-> vararg, kwonlyargs |-> kwonlyargs,
     kw_defaults |-> kw_defaults, kwarg |-> kwarg]

Injective(s) == \A i, j \in 1..Len(s) : s[i] = s[j] => i = j

ArgLists == {s \in UNION {[1..n -> ArgNames] : n \in 0..MaxArgs} :
                Injective(s)}

\* the signatures Python accepts: distinct names, at most as many defaults
\* as positional parameters
Signatures ==
    {arguments(p, a, d, v, k[1], k[2], w) :
        p \in {<<>>, <<"p">>},
        a \in ArgLists,
        d \in UNION {[1..n -> Exprs] : n \in 0..(MaxArgs + 1)},
        v \in Opt({"r"}),
        k \in {<<<<>>, <<>>>>,
               <<<<"k">>, <<None>>>>,
               <<<<"k">>, <<Some(Constant("1"))>>>>,
               <<<<"k", "m">>, <<None, Some(Constant("None"))>>>>,
               <<<<"k", "m">>, <<Some(Constant("1")), None>>>>},
        w \in Opt({"kw"})}

\* where a function is defined: at module level, or in a class body as an
\* instance method, a class method or a static method
FunctionKinds == {"function", "method", "classmethod", "staticmethod"}

\* _get_constant_value: ast.unparse of the expression, None for None
get_constant_value(node) ==
    IF node = None THEN None ELSE Some(node[1].text)

ParameterInfo(name, default_value) ==
    [name |-> name, default_value |-> default_value]

\* the loop of _parse_parameters over args.args, from its i-th entry on
\* (i counts from 0 as enumerate does)
RECURSIVE parse_args(_, _, _)
parse_args(ps, args, i) ==
    IF i >= Len(args.args) THEN ps
    ELSE LET a == args.args[i + 1]
             defaults_offset == Len(args.args) - Len(args.defaults)
             default == IF i >= defaults_offset
                        THEN get_constant_value(
                                Some(args.defaults[i - defaults_offset + 1]))
                        ELSE None
         IN  parse_args(IF a \in {"self", "cls"} THEN ps
                        ELSE Append(ps, ParameterInfo(a, default)),
                        args, i + 1)

\* the loop of _parse_parameters over args.kwonlyargs
RECURSIVE parse_kwonlyargs(_, _, _)
parse_kwonlyargs(ps, args, i) ==
    IF i >= Len(args.kwonlyargs) THEN ps
    ELSE LET default == IF /\ i < Len(args.kw_defaults)
                           /\ args.kw_defaults[i + 1] # None
                        THEN get_constant_value(args.kw_defaults[i + 1])
                        ELSE None
         IN  parse_kwonlyargs(
                Append(ps, ParameterInfo(args.kwonlyargs[i + 1], default)),
                args, i + 1)

\* _parse_parameters with the keyword-only parameters before "*name"
parse_parameters_named_first(args) ==
    LET positional == parse_args(<<>>, args, 0)
        with_kwonly == parse_kwonlyargs(positional, args, 0)
        with_vararg == IF args.vararg # None
                       THEN Append(with_kwonly,
                                   ParameterInfo("*" \o args.vararg[1], None))
                       ELSE with_kwonly
    IN  IF args.kwarg # None
        THEN Append(with_vararg, ParameterInfo("**" \o args.kwarg[1], None))
        ELSE with_vararg

\* _parse_parameters
parse_parameters(args) ==
    LET positional == parse_args(<<>>, args, 0)
        with_vararg == IF args.vararg # None
                       THEN Append(positional,
                                   ParameterInfo("*" \o args.vararg[1], None))
                       ELSE positional
        with_kwonly == parse_kwonlyargs(with_vararg, args, 0)
    IN  IF args.kwarg # None
        THEN Append(with_kwonly, ParameterInfo("**" \o args.kwarg[1], None))
        ELSE with_kwonly

ParamsInit ==
    /\ StoreInit
    /\ ProcIdle
    /\ tree = <<>>
    /\ include_private = FALSE
    /\ module = None
    /\ ClassIdle
    /\ fn \in {Some([kind |-> k, args |-> s]) :
                  k \in FunctionKinds,
                  s \in {s \in Signatures :
                            Len(s.defaults) <=
                                Len(s.posonlyargs) + Len(s.args)}}
    /\ params = None
    /\ ExcludeIdle
    /\ OptionsIdle
    /\ ExtractIdle
    /\ OutlineIdle

\* _parse_function and _parse_method: both pass node.args
ParseParameters ==
    /\ params = None
    /\ params' = Some(parse_parameters(fn[1].args))
    /\ UNCHANGED fn

ParamsNext ==
    /\ ParseParameters
    /\ UNCHANGED <<storeVars, procVars, tree, include_private, module,
                   classVars, excludeVars, optionVars, extractVars,
                   outlineVars>>

SpecParams == ParamsInit /\ [][ParamsNext]_vars

\* the positional parameters the signature declares, in declaration order
DeclaredPositional == fn[1].args.posonlyargs \o fn[1].args.args

\* the entries of the extracted list that stand for positional parameters:
\* all but the variadic and the keyword-only ones
PositionalOut ==
    SubSeq(params[1], 1,
           Len(params[1]) - Len(fn[1].args.kwonlyargs)
               - (IF fn[1].args.vararg # None THEN 1 ELSE 0)
               - (IF fn[1].args.kwarg # None THEN 1 ELSE 0))

NamesOf(ps) == [j \in 1..Len(ps) |-> ps[j].name]

\* the function has an implicit first parameter named self or cls
HasImplicitFirst ==
    /\ fn[1].kind \in {"method", "classmethod"}
    /\ DeclaredPositional # <<>>
    /\ Head(DeclaredPositional) \in {"self", "cls"}

\* C14: the extracted list drops the implicit first parameter (self/cls) of
\* an instance or class method and keeps every other declared positional
\* parameter in declaration order; of a standalone function it keeps every
\* positional parameter.
C14_PositionalParametersKept ==
    params # None =>
        NamesOf(PositionalOut) =
            IF HasImplicitFirst THEN Tail(DeclaredPositional)
            ELSE DeclaredPositional

\* the default the c-th declared positional parameter carries when the d
\* defaults belong to the last d positional parameters, the k-th default to
\* the k-th of them
PairedDefault(c) ==
    LET n == Len(DeclaredPositional)
        d == Len(fn[1].args.defaults)
    IN  IF c > n - d THEN Some(fn[1].args.defaults[c - (n - d)].text)
        ELSE None

\* C15: with n positional parameters and d defaults, exactly the last d
\* positional parameters carry a default in the extracted list, the k-th of
\* them the k-th default, and the others carry none; self and cls are
\* dropped without shifting the pairing.
C15_DefaultsByOffset ==
    params # None =>
        LET n == Len(DeclaredPositional)
            d == Len(fn[1].args.defaults)
        IN  \A c \in 1..n :
                DeclaredPositional[c] \notin {"self", "cls"} =>
                    IF c > n - d
                    THEN \E j \in 1..Len(PositionalOut) :
                            /\ PositionalOut[j].name = DeclaredPositional[c]
                            /\ PositionalOut[j].default_value =
                                  PairedDefault(c)
                    ELSE \A j \in 1..Len(PositionalOut) :
                            PositionalOut[j].name = DeclaredPositional[c]
                                => PositionalOut[j].default_value = None

\* the pairing of the parameters that are extracted: every positional entry
\* of the list stands for a declared positional parameter and carries the
\* default paired with it
DefaultsOfKeptParameters ==
    params # None =>
        \A j \in 1..Len(PositionalOut) :
            \E c \in 1..Len(DeclaredPositional) :
                /\ PositionalOut[j].name = DeclaredPositional[c]
                /\ PositionalOut[j].default_value = PairedDefault(c)

\* a method (self, a, b = 1): b carries the default although self is dropped
DefaultsOfKeptParametersWitness ==
    /\ params # None
    /\ fn[1].args.args = <<"self", "a", "b">>
    /\ fn[1].args.defaults = <<Constant("1")>>
    /\ PositionalOut = <<ParameterInfo("a", None),
                         ParameterInfo("b", Some("1"))>>

\* the entry is a variadic one: its name starts with "*"
IsVariadic(e) == SubSeq(e.name, 1, 1) = "*"

\* the entry a keyword-only parameter is kept as: its name with its own
\* default, or with none
KeywordOnlyEntry(q) ==
    ParameterInfo(fn[1].args.kwonlyargs[q],
                  IF fn[1].args.kw_defaults[q] = None THEN None
                  ELSE Some(fn[1].args.kw_defaults[q][1].text))

\* the list has one entry named n when wanted, and none otherwise
OneEntryIf(wanted, n) ==
    Cardinality({j \in 1..Len(params[1]) : params[1][j].name = n}) =
        IF wanted THEN 1 ELSE 0

\* C16 as stated: "*name" and "**name" are single entries that come after
\* every named parameter of the list, and each keyword-only parameter is
\* kept with its own default (or none).
C16_VariadicAfterNamed ==
    params # None =>
        LET ps == params[1]
            a  == fn[1].args
        IN  /\ a.vararg # None => OneEntryIf(TRUE, "*" \o a.vararg[1])
            /\ a.kwarg # None => OneEntryIf(TRUE, "**" \o a.kwarg[1])
            /\ \A i, j \in 1..Len(ps) :
                  (~IsVariadic(ps[i]) /\ IsVariadic(ps[j])) => i < j
            /\ \A q \in 1..Len(a.kwonlyargs) :
                  \E j \in 1..Len(ps) : ps[j] = KeywordOnlyEntry(q)

\* C16, amended: the list is laid out in signature order.  The positional
\* entries come first; "*name", a single entry without default, follows
\* them and precedes the keyword-only parameters; these are kept in
\* declaration order, each with its own default (or none); "**name", a
\* single entry without default, is last.  A variadic entry exists only
\* for a variadic parameter of the signature.
C16_VariadicInSignatureOrder ==
    params # None =>
        LET ps == params[1]
            a  == fn[1].args
            nk == Len(a.kwonlyargs)
            nv == IF a.vararg # None THEN 1 ELSE 0
            nw == IF a.kwarg # None THEN 1 ELSE 0
            np == Len(ps) - nk - nv - nw
        IN  /\ np >= 0
            /\ \A j \in 1..np :
                  /\ ~IsVariadic(ps[j])
                  /\ \E c \in 1..Len(DeclaredPositional) :
                        ps[j].name = DeclaredPositional[c]
            /\ a.vararg # None =>
                  ps[np + 1] = ParameterInfo("*" \o a.vararg[1], None)
            /\ \A q \in 1..nk : ps[np + nv + q] = KeywordOnlyEntry(q)
            /\ a.kwarg # None =>
                  ps[Len(ps)] = ParameterInfo("**" \o a.kwarg[1], None)
            /\ Cardinality({j \in 1..Len(ps) : IsVariadic(ps[j])}) = nv + nw

\* (a, *r, k = 1, m, **kw): "*r" stands between a and the keyword-only k
C16_Witness ==
    /\ params # None
    /\ params[1] = <<ParameterInfo("a", None),
                     ParameterInfo("*r", None),
                     ParameterInfo("k", Some("1")),
                     ParameterInfo("m", None),
                     ParameterInfo("**kw", None)>>

(***************************************************************************)
(* APIExtractor: the exclusion patterns.  Paths and patterns are strings;  *)
(* a relative path is the text of Path.relative_to(repo_path), its parts   *)
(* the texts between the "/".  Every file rglob yields lies under          *)
(* repo_path, so relative_to never raises.  Patterns are made of literal   *)
(* characters, "*" and "?"; bracket expressions are not drawn.             *)
(***************************************************************************)
DEFAULT_EXCLUDE_PATTERNS ==
    <<"__pycache__", "*.pyc", ".git", ".venv", "venv", "env", ".env",
      "node_modules", "dist", "build", "*.egg-info", ".tox", ".pytest_cache",
      ".mypy_cache", ".ruff_cache", "tests", "test_*", "*_test.py",
      "conftest.py", "setup.py">>

test_patterns == {"tests", "test_*", "*_test.py", "conftest.py"}

\* fnmatch.fnmatch on a POSIX system (normcase changes nothing): the whole
\* name matches the pattern, "*" standing for any text, "?" for one character
RECURSIVE fnmatch(_, _)
fnmatch(name, pattern) ==
    IF pattern = "" THEN name = ""
    ELSE LET p    == SubSeq(pattern, 1, 1)
             rest == SubSeq(pattern, 2, Len(pattern))
         IN  IF p = "*"
             THEN \E k \in 0..Len(name) :
                     fnmatch(SubSeq(name, k + 1, Len(name)), rest)
             ELSE /\ name # ""
                  /\ p = "?" \/ p = SubSeq(name, 1, 1)
                  /\ fnmatch(SubSeq(name, 2, Len(name)), rest)

\* Path.parts of a relative path: the texts between the separators,
\* collected into part while reading path
RECURSIVE parts(_, _)
parts(path, part) ==
    IF path = "" THEN <<part>>
    ELSE IF SubSeq(path, 1, 1) = "/"
         THEN <<part>> \o parts(SubSeq(path, 2, Len(path)), "")
         ELSE parts(SubSeq(path, 2, Len(path)), part \o SubSeq(path, 1, 1))

NotTestPattern(p) == p \notin test_patterns

\* APIExtractor.__init__: self.exclude_patterns
effective_patterns(tests, additional) ==
    LET defaults == IF tests
                    THEN SelectSeq(DEFAULT_EXCLUDE_PATTERNS, NotTestPattern)
                    ELSE DEFAULT_EXCLUDE_PATTERNS
    IN  IF additional # <<>> THEN defaults \o additional ELSE defaults

\* the loop "for part in parts" of _should_exclude
RECURSIVE any_part_matches(_, _)
any_part_matches(ps, pattern) ==
    IF ps = <<>> THEN FALSE
    ELSE IF fnmatch(Head(ps), pattern) THEN TRUE
         ELSE any_part_matches(Tail(ps), pattern)

\* the loop "for pattern in self.exclude_patterns" of _should_exclude
RECURSIVE any_pattern_matches(_, _, _)
any_pattern_matches(ps, path, patterns) ==
    IF patterns = <<>> THEN FALSE
    ELSE IF any_part_matches(ps, Head(patterns)) THEN TRUE
         ELSE IF fnmatch(path, Head(patterns)) THEN TRUE
              ELSE any_pattern_matches(ps, path, Tail(patterns))

\* _should_exclude with the path components tested only
should_exclude_parts(path, patterns) ==
    \E k \in 1..Len(patterns) :
        any_part_matches(parts(path, ""), patterns[k])

\* _should_exclude
should_exclude(path, patterns) ==
    any_pattern_matches(parts(path, ""), path, patterns)

\* relative paths of *.py files of a repository
RelPaths ==
    {"a.py", "pkg/a.py", "tests/a.py", "pkg/tests/a.py", "test_a.py",
     "pkg/test_a.py", "a_test.py", "pkg/conftest.py", "setup.py",
     "pkg/setup.py", "venv/lib/a.py", "build/a.py", "x.egg-info/a.py",
     "mytests/a.py", "contest.py", "latest_a.py", "pkg/gen_a.py",
     "docs/conf.py", ".git/hooks/a.py", "environment/a.py"}

\* the exclude_patterns argument: None or empty, or the caller's patterns
AdditionalPatterns ==
    {<<>>, <<"docs">>, <<"gen_*">>, <<"pkg/*">>, <<"tests">>,
     <<"docs", "*/con?.py">>}

ExcludeInit ==
    /\ StoreInit
    /\ ProcIdle
    /\ tree = <<>>
    /\ include_private = FALSE
    /\ module = None
    /\ ClassIdle
    /\ ParamsIdle
    /\ rel_path \in RelPaths
    /\ include_tests \in BOOLEAN
    /\ exclude_patterns \in AdditionalPatterns
    /\ excluded = None
    /\ ExtractIdle
    /\ OutlineIdle

ShouldExclude ==
    /\ excluded = None
    /\ excluded' = Some(should_exclude(
                      rel_path,
                      effective_patterns(include_tests, exclude_patterns)))
    /\ UNCHANGED <<rel_path, include_tests, exclude_patterns>>

ExcludeNext ==
    /\ ShouldExclude
    /\ UNCHANGED <<storeVars, procVars, tree, include_private, module,
                   classVars, paramVars, extractVars,
                   outlineVars>>

SpecExclude == ExcludeInit /\ [][ExcludeNext]_vars

Range(s) == {s[j] : j \in 1..Len(s)}

\* the effective exclusion set: the defaults, minus the four test patterns
\* when include_tests is on, plus the caller's patterns
EffectiveSet ==
    (Range(DEFAULT_EXCLUDE_PATTERNS)
        \ (IF include_tests
           THEN {"tests", "test_*", "*_test.py", "conftest.py"} ELSE {}))
    \cup Range(exclude_patterns)

\* C19: a file is excluded iff some pattern of the effective set matches a
\* segment of its relative path, at any position, or the whole relative path.
C19_ExcludedIffPatternMatches ==
    excluded # None =>
        (excluded[1] <=>
            \E pattern \in EffectiveSet :
                \/ \E segment \in Range(parts(rel_path, "")) :
                       fnmatch(segment, pattern)
                \/ fnmatch(rel_path, pattern))

\* a file under pkg/tests is excluded by "tests", a segment that is not the
\* first one, while include_tests is off
C19_Witness ==
    /\ excluded = Some(TRUE)
    /\ rel_path = "pkg/tests/a.py"
    /\ ~include_tests
    /\ exclude_patterns = <<>>

\* "pkg/*" matches no segment of pkg/a.py and matches the whole path
C19_WitnessFullPath ==
    /\ excluded = Some(TRUE)
    /\ rel_path = "pkg/a.py"
    /\ exclude_patterns = <<"pkg/*">>

\* include_tests on: test_a.py is kept, and the caller's "tests" pattern
\* still excludes tests/a.py
C19_WitnessIncludeTests ==
    /\ include_tests
    /\ \/ excluded = Some(FALSE) /\ rel_path = "pkg/test_a.py"
                                 /\ exclude_patterns = <<"docs">>
       \/ excluded = Some(TRUE) /\ rel_path = "tests/a.py"
                                /\ exclude_patterns = <<"tests">>

(***************************************************************************)
(* APIExtractor.extract.  The repository is a snapshot: a function from    *)
(* the relative paths rglob("*.py") yields to what lies there.  A path     *)
(* holds source text that parses (its module-level statements), text with  *)
(* malformed syntax, bytes that are no UTF-8, or something read_text       *)
(* cannot read: a directory whose name ends in .py, a dangling symbolic    *)
(* link, a file without read permission.  rglob yields the paths in the    *)
(* order of the directory scan, which is any order.                        *)
(***************************************************************************)
MaxFiles == 2        \* *.py paths of a repository

RepoPaths == {"a.py", "a/b.py", "tests/c.py"}

Source(nodes) == [kind |-> "source", tree |-> nodes]
SyntaxErrorFile == [kind |-> "syntax_error", tree |-> <<>>]
UndecodableFile == [kind |-> "undecodable", tree |-> <<>>]
UnreadableFile  == [kind |-> "unreadable", tree |-> <<>>]

Contents ==
    {Source(<<Def("Import", <<>>)>>),
     Source(<<Def("FunctionDef", NamePriv)>>),
     Source(<<Def("FunctionDef", NameA), Assign(<<Name(NameB)>>, Num)>>),
     SyntaxErrorFile, UndecodableFile, UnreadableFile}

Repos ==
    UNION {[S -> Contents] :
              S \in {S \in SUBSET RepoPaths : Cardinality(S) <= MaxFiles}}

\* the orders in which a directory scan can yield the paths of S
Walks(S) ==
    {w \in [1..Cardinality(S) -> S] :
        \A i, j \in 1..Cardinality(S) : w[i] = w[j] => i = j}

\* the characters of the paths, in code point order
Alphabet == <<".", "/", "_", "a", "b", "c", "e", "p", "s", "t", "y">>
Ord(c) == CHOOSE i \in 1..Len(Alphabet) : Alphabet[i] = c

\* str.__lt__: code point by code point, a proper prefix first
RECURSIVE str_lt(_, _)
str_lt(s, t) ==
    IF t = "" THEN FALSE
    ELSE IF s = "" THEN TRUE
         ELSE IF SubSeq(s, 1, 1) # SubSeq(t, 1, 1)
              THEN Ord(SubSeq(s, 1, 1)) < Ord(SubSeq(t, 1, 1))
              ELSE str_lt(SubSeq(s, 2, Len(s)), SubSeq(t, 2, Len(t)))

\* Path.__lt__: the lists of parts, part by part
RECURSIVE parts_lt(_, _)
parts_lt(p, q) ==
    IF q = <<>> THEN FALSE
    ELSE IF p = <<>> THEN TRUE
         ELSE IF Head(p) # Head(q) THEN str_lt(Head(p), Head(q))
              ELSE parts_lt(Tail(p), Tail(q))

path_lt(p, q) == parts_lt(parts(p, ""), parts(q, ""))

\* the order of a sort: of Path objects, or of modules by the key
\* "lambda m: m.file_path"
less(key, x, y) ==
    IF key = "path" THEN path_lt(x, y) ELSE str_lt(x.file_path, y.file_path)

\* list.sort / sorted, a stable sort: x is inserted behind the entries
\* that are not greater
RECURSIVE insert(_, _, _)
insert(x, s, key) ==
    IF s = <<>> THEN <<x>>
    ELSE IF less(key, x, Head(s)) THEN <<x>> \o s
         ELSE <<Head(s)>> \o insert(x, Tail(s), key)

RECURSIVE sorted(_, _)
sorted(s, key) ==
    IF s = <<>> THEN <<>>
    ELSE insert(s[Len(s)], sorted(SubSeq(s, 1, Len(s) - 1), key), key)

\* Path.stem of a *.py path: the last part without its suffix
stem(path) ==
    LET last == parts(path, "")[Len(parts(path, ""))]
    IN  SubSeq(last, 1, Len(last) - 3)

\* PythonParser.parse_file on a path of the repository: raises what
\* read_text raises, returns None for the two errors it catches, and the
\* ModuleComponent otherwise
parse_path(files, path, private) ==
    CASE files[path].kind = "unreadable" -> Raised("OSError")
      [] files[path].kind \in {"syntax_error", "undecodable"} -> Ok(None)
      [] OTHER ->
            LET m == parse_file(files[path].tree, private)
            IN  Ok(Some([id |-> generate_id(path, stem(path), 1),
                         name |-> stem(path),
                         file_path |-> path,
                         line_number |-> 1,
                         all_exports |-> m.all_exports,
                         classes |-> m.classes,
                         functions |-> m.functions,
                         constants |-> m.constants]))

\* _has_public_api with every module accepted
has_public_api_always(m) == TRUE

\* _has_public_api
has_public_api(m) ==
    m.classes # <<>> \/ m.functions # <<>> \/ m.constants # <<>>

\* _find_python_files on the paths in the order rglob yields them
find_python_files(walk, patterns) ==
    LET Kept(p) == ~should_exclude(p, patterns)
    IN  sorted(SelectSeq(walk, Kept), "path")

\* the loop of extract over the files found; an exception of parse_file
\* ends it
RECURSIVE extract_files(_, _, _, _)
extract_files(modules, found, files, private) ==
    IF found = <<>> THEN Ok(modules)
    ELSE LET r == parse_path(files, Head(found), private)
         IN  IF r.raised THEN r
             ELSE extract_files(
                     IF r.value # None /\ has_public_api(r.value[1])
                     THEN Append(modules, r.value[1])
                     ELSE modules,
                     Tail(found), files, private)

\* extract without "modules.sort(key=lambda m: m.file_path)"
extract_unsorted(files, walk, patterns, private) ==
    extract_files(<<>>, find_python_files(walk, patterns), files, private)

\* extract
extract(files, walk, patterns, private) ==
    LET r == extract_files(<<>>, find_python_files(walk, patterns),
                           files, private)
    IN  IF r.raised THEN r ELSE Ok(sorted(r.value, "file_path"))

\* two consecutive runs over one snapshot
RunOrder == <<"first", "second">>

ExtractInit ==
    /\ StoreInit
    /\ ProcIdle
    /\ tree = <<>>
    /\ module = None
    /\ ClassIdle
    /\ ParamsIdle
    /\ ExcludeIdle
    /\ include_private \in BOOLEAN
    /\ include_tests \in BOOLEAN
    /\ exclude_patterns = <<>>
    /\ repo \in Repos
    /\ walks = <<>>
    /\ runs = <<>>
    /\ OutlineIdle

\* one run of APIExtractor(repo_path, include_private, None,
\* include_tests).extract()
Extract(walk) ==
    /\ Len(runs) < Len(RunOrder)
    /\ walks' = Append(walks, walk)
    /\ runs' = Append(runs,
                      extract(repo, walk,
                              effective_patterns(include_tests,
                                                 exclude_patterns),
                              include_private))
    /\ UNCHANGED <<repo, include_private, include_tests, exclude_patterns>>

ExtractNext ==
    /\ \E walk \in Walks(DOMAIN repo) : Extract(walk)
    /\ UNCHANGED <<storeVars, procVars, tree, module, classVars, paramVars,
                   excludeVars,
                   outlineVars>>

SpecExtract == ExtractInit /\ [][ExtractNext]_vars

\* the path survives exclusion: no pattern of the effective set matches one
\* of its segments or the whole path
Survives(path) ==
    ~\E pattern \in EffectiveSet :
        \/ \E segment \in Range(parts(path, "")) : fnmatch(segment, pattern)
        \/ fnmatch(path, pattern)

\* parsing the file fails with malformed syntax or undecodable bytes
ParseFails(path) == repo[path].kind \in {"syntax_error", "undecodable"}

\* the file parses and the parsed module has a class, a function or a
\* constant
HasApi(path) ==
    /\ repo[path].kind = "source"
    /\ LET m == parse_file(repo[path].tree, include_private)
       IN  Len(m.classes) + Len(m.functions) + Len(m.constants) >= 1

\* the paths of the modules a run returned
Returned(r) == {r.value[j].file_path : j \in 1..Len(r.value)}

\* C17: a file whose parsing fails yields no module, and extract() still
\* returns the modules of every other surviving file; no failure caused by
\* a single file aborts the run.
C17_FileFailuresAreIsolated ==
    \A k \in 1..Len(runs) :
        /\ ~runs[k].raised
        /\ \A p \in DOMAIN repo :
              /\ ParseFails(p) => p \notin Returned(runs[k])
              /\ (Survives(p) /\ HasApi(p)) => p \in Returned(runs[k])

\* the part of C17 that the two caught errors bear out: while every path
\* of the repository can be read, no run raises, a file with malformed
\* syntax or undecodable bytes yields no module and the modules of the
\* other surviving files are returned
CaughtFailuresAreIsolated ==
    (\A p \in DOMAIN repo : repo[p].kind # "unreadable") =>
        \A k \in 1..Len(runs) :
            /\ ~runs[k].raised
            /\ \A p \in DOMAIN repo :
                  /\ ParseFails(p) => p \notin Returned(runs[k])
                  /\ (Survives(p) /\ HasApi(p)) => p \in Returned(runs[k])

CaughtFailuresAreIsolatedWitness ==
    /\ runs # <<>>
    /\ \E p, q \in DOMAIN repo :
          /\ Survives(p) /\ ParseFails(p)
          /\ Survives(q) /\ HasApi(q)
          /\ Returned(runs[1]) = {q}

\* C18: a run of extract() that returns, returns a module for a file iff
\* the file survives exclusion, parses, and the parsed module has at least
\* one class, function or constant; each such file has one module.
C18_ModuleIffSurvivesParsesAndHasApi ==
    \A k \in 1..Len(runs) : ~runs[k].raised =>
        /\ \A p \in DOMAIN repo :
              p \in Returned(runs[k]) <=> (Survives(p) /\ HasApi(p))
        /\ Len(runs[k].value) = Cardinality(Returned(runs[k]))
        /\ \A j \in 1..Len(runs[k].value) :
              runs[k].value[j].file_path \in DOMAIN repo

\* include_private off: a module of imports only, or of private names
\* only, is dropped next to a module with a function
C18_Witness ==
    /\ runs # <<>>
    /\ ~runs[1].raised
    /\ ~include_private
    /\ \E p, q \in DOMAIN repo :
          /\ Survives(p) /\ Survives(q)
          /\ repo[p].tree \in {<<Def("Import", <<>>)>>,
                               <<Def("FunctionDef", NamePriv)>>}
          /\ repo[p].kind = "source"
          /\ HasApi(q)
          /\ Returned(runs[1]) = {q}

\* a module with an API in an excluded directory is not returned
C18_WitnessExcluded ==
    /\ runs # <<>>
    /\ ~runs[1].raised
    /\ \E p \in DOMAIN repo : ~Survives(p) /\ HasApi(p)
    /\ \E q \in DOMAIN repo : q \in Returned(runs[1])

\* the file paths of a returned list ascend strictly, as strings
AscendingPaths(ms) ==
    \A i, j \in 1..Len(ms) :
        i < j => str_lt(ms[i].file_path, ms[j].file_path)

\* C20: for one snapshot and fixed options, two consecutive runs of
\* extract() have the same outcome, the same modules in the same order with
\* the same ids and field values, and a returned list is in ascending order
\* of the relative file path, whatever order the directory walk yields the
\* files in.
C20_RunsAgreeAndAreOrdered ==
    /\ \A k, l \in 1..Len(runs) : runs[k] = runs[l]
    /\ \A k \in 1..Len(runs) : ~runs[k].raised => AscendingPaths(runs[k].value)

\* two runs whose walks yielded a.py and a/b.py in opposite orders both
\* returned a.py before a/b.py (as Path objects a/b.py sorts first)
C20_Witness ==
    /\ Len(runs) = 2
    /\ walks[1] = <<"a.py", "a/b.py">>
    /\ walks[2] = <<"a/b.py", "a.py">>
    /\ path_lt("a/b.py", "a.py")
    /\ ~runs[1].raised
    /\ NamesOf(runs[1].value) = <<"a", "b">>
    /\ runs[2].value[1].file_path = "a.py"
    /\ runs[2].value[2].file_path = "a/b.py"

(***************************************************************************)
(* Component ids.  A source file is its relative path and its module-level *)
(* statements; ast.parse gives every statement the line it starts on.  A   *)
(* statement starts "gap" lines below the end of the one before it (below  *)
(* line 0 for the first one): simple statements separated by ";" share a   *)
(* line (gap 0), a definition spans its header line and one body line, a   *)
(* class spans its header line and the lines of its members.  The          *)
(* definitions of these files take no parameters.                          *)
(***************************************************************************)
MaxStmts == 2        \* module-level statements of a source file

\* str -> the sequence of its characters
Chars(s) == [k \in 1..Len(s) |-> SubSeq(s, k, k)]

Docstrings == {None, Some("d"), Some("e")}

NameMixed   == Chars("Ab")
NameVersion == Chars("__version__")
NameAuthor  == Chars("__author__")

Located(node, gap, docstring, members) ==
    [node |-> node, gap |-> gap, docstring |-> docstring,
     members |-> members]

\* class bodies: empty ("class K: pass"), a method and an annotated
\* variable on lines of their own, and "class K: A = 1" on one line
MemberLists ==
    {<<>>,
     <<Located(MethodDef("FunctionDef", NameA, <<>>), 1, Some("d"), <<>>),
       Located(ClassAnnAssign(Name(NameA)), 1, None, <<>>)>>,
     <<Located(MethodDef("FunctionDef", NameB, <<DecoName("property")>>),
               1, None, <<>>)>>,
     <<Located(ClassAssign(<<Name(NameA)>>), 0, None, <<>>)>>}

IsSimple(stmt) == stmt.node.type \in {"Assign", "AnnAssign"}

LocatedStatements ==
    {Located(Def(t, n), 1, d, <<>>) :
        t \in {"FunctionDef"}, n \in {NameA, NamePriv}, d \in {None, Some("d")}}
    \cup {Located(Def("AsyncFunctionDef", NameB), 2, None, <<>>)}
    \cup {Located(Def("ClassDef", ClassName), 1, Some("d"), ms) :
            ms \in MemberLists}
    \cup {Located(Assign(ts, Num), g, None, <<>>) :
            ts \in {<<Name(NameB)>>, <<Name(NameA), Name(NameA)>>},
            g \in 0..1}
    \cup {Located(Assign(<<Name(NameMixed), Name(NameVersion),
                           Name(NamePriv)>>, Num), 1, None, <<>>)}

\* a simple statement follows ";" only behind a simple statement
WellLaid(stmts) ==
    \A k \in 1..Len(stmts) :
        stmts[k].gap = 0 => (k > 1 /\ IsSimple(stmts[k]) /\ IsSimple(stmts[k-1]))

SourcePaths == {"A.py", "pkg/B.py"}

SourceFiles ==
    {f \in [path : SourcePaths,
            stmts : UNION {[1..n -> LocatedStatements] : n \in 0..MaxStmts}] :
        WellLaid(f.stmts)}

\* the number of lines a statement takes below its first line
RECURSIVE Span(_)
RECURSIVE BodySpan(_)
Span(stmt) ==
    CASE stmt.node.type = "ClassDef" ->
            IF stmt.members = <<>> THEN 1 ELSE BodySpan(stmt.members)
      [] stmt.node.type \in {"FunctionDef", "AsyncFunctionDef"} -> 1
      [] OTHER -> 0

BodySpan(items) ==
    IF items = <<>> THEN 0
    ELSE Head(items).gap + Span(Head(items)) + BodySpan(Tail(items))

\* node.lineno of the k-th statement of a body that starts below line "top"
RECURSIVE lineno(_, _, _)
lineno(stmts, k, top) ==
    IF k = 1 THEN top + stmts[1].gap
    ELSE lineno(stmts, k - 1, top) + Span(stmts[k - 1]) + stmts[k].gap

\* _parse_function: the FunctionComponent
parse_function(node, line_number, docstring, file_path) ==
    [id |-> generate_id(file_path, node.name, line_number),
     name |-> node.name,
     line_number |-> line_number,
     docstring |-> docstring,
     parameters |-> <<>>,
     is_async |-> node.type = "AsyncFunctionDef"]

\* the loop of _parse_class over the class body, from its k-th statement
\* on; the class header stands on line c.line_number
RECURSIVE parse_class_items(_, _, _, _, _)
parse_class_items(c, items, k, file_path, private) ==
    IF k > Len(items) THEN c
    ELSE LET item == items[k].node
             line_number == lineno(items, k, c.line_number)
             method == parse_method(item, line_number, file_path, c.name)
                          @@ [docstring |-> items[k].docstring,
                              parameters |-> <<>>]
         IN  parse_class_items(
               CASE item.type \in {"FunctionDef", "AsyncFunctionDef"} ->
                      IF should_include_method(private, item.name)
                      THEN IF method.is_property
                           THEN [c EXCEPT !.properties =
                                   Append(@, PropertyComponent(
                                                 method.id, method.name,
                                                 method.line_number, FALSE))]
                           ELSE [c EXCEPT !.methods = Append(@, method)]
                      ELSE c
                 [] item.type = "AnnAssign"
                      /\ item.targets[1].type = "Name" ->
                      IF should_include_method(private, item.targets[1].id)
                      THEN [c EXCEPT !.class_variables =
                              Append(@, PropertyComponent(
                                 generate_id(file_path, item.targets[1].id,
                                             line_number),
                                 item.targets[1].id, line_number, TRUE))]
                      ELSE c
                 [] item.type = "Assign" ->
                      [c EXCEPT !.class_variables =
                          parse_class_targets(@, item.targets, line_number,
                                              file_path, private)]
                 [] OTHER -> c,
               items, k + 1, file_path, private)

\* _parse_class on a located class definition
parse_class_at(stmt, line_number, file_path, private) ==
    parse_class_items([id |-> generate_id(file_path, stmt.node.name,
                                          line_number),
                       name |-> stmt.node.name,
                       line_number |-> line_number,
                       docstring |-> stmt.docstring,
                       methods |-> <<>>, properties |-> <<>>,
                       class_variables |-> <<>>],
                      stmt.members, 1, file_path, private)

\* the loop "for target in node.targets" of parse_file, with the ids of
\* _parse_assignment
RECURSIVE parse_targets_at(_, _, _, _, _, _)
parse_targets_at(constants, targets, line_number, file_path, private, all_exports) ==
    IF targets = <<>> THEN constants
    ELSE parse_targets_at(
            IF /\ Head(targets).type = "Name"
               /\ should_include(private, Head(targets).id, all_exports)
            THEN Append(constants,
                        PropertyComponent(
                            generate_id(file_path, Head(targets).id,
                                        line_number),
                            Head(targets).id, line_number, FALSE))
            ELSE constants,
            Tail(targets), line_number, file_path, private, all_exports)

\* the loop of parse_file over the located statements, from the k-th on
RECURSIVE parse_nodes_at(_, _, _, _)
parse_nodes_at(m, stmts, k, private) ==
    IF k > Len(stmts) THEN m
    ELSE LET node == stmts[k].node
             line_number == lineno(stmts, k, 0)
             inc(name) == should_include(private, name, m.all_exports)
         IN  parse_nodes_at(
               CASE node.type = "ClassDef" ->
                      IF inc(node.name)
                      THEN [m EXCEPT !.classes =
                               Append(@, parse_class_at(stmts[k], line_number,
                                                        m.file_path, private))]
                      ELSE m
                 [] node.type \in {"FunctionDef", "AsyncFunctionDef"} ->
                      IF inc(node.name)
                      THEN [m EXCEPT !.functions =
                               Append(@, parse_function(node, line_number,
                                                        stmts[k].docstring,
                                                        m.file_path))]
                      ELSE m
                 [] node.type = "Assign" ->
                      [m EXCEPT !.constants =
                          parse_targets_at(@, node.targets, line_number,
                                           m.file_path, private,
                                           m.all_exports)]
                 [] node.type = "AnnAssign"
                      /\ node.targets[1].type = "Name" ->
                      IF inc(node.targets[1].id)
                      THEN [m EXCEPT !.constants =
                               Append(@, PropertyComponent(
                                   generate_id(m.file_path, node.targets[1].id,
                                               line_number),
                                   node.targets[1].id, line_number, FALSE))]
                      ELSE m
                 [] OTHER -> m,
               stmts, k + 1, private)

\* parse_file on a source file that parses: the ModuleComponent with the
\* ids, lines and docstrings of its components
parse_file_at(file, private) ==
    parse_nodes_at(
        [id |-> generate_id(file.path, Chars(stem(file.path)), 1),
         name |-> Chars(stem(file.path)),
         file_path |-> file.path,
         line_number |-> 1,
         all_exports |-> extract_all_exports(
                            [k \in 1..Len(file.stmts) |-> file.stmts[k].node]),
         classes |-> <<>>, functions |-> <<>>, constants |-> <<>>],
        file.stmts, 1, private)

IdsInit ==
    /\ StoreInit
    /\ ProcIdle
    /\ tree = <<>>
    /\ module = None
    /\ include_private \in BOOLEAN
    /\ ClassIdle
    /\ ParamsIdle
    /\ ExcludeIdle
    /\ OptionsIdle
    /\ ExtractIdle
    /\ src_file \in {Some(f) : f \in SourceFiles}
    /\ parsed = <<>>
    /\ TocIdle
    /\ TitleIdle
    /\ SiteIdle

\* one run of parse_file over the file as it is now
ParseSource ==
    /\ Len(parsed) < Len(RunOrder)
    /\ parsed' = Append(parsed,
                        [file |-> src_file[1],
                         module |-> parse_file_at(src_file[1],
                                                  include_private)])
    /\ UNCHANGED <<src_file, include_private>>

\* between two runs the file is edited at most once
Editable ==
    /\ Len(parsed) = 1
    /\ parsed[1].file = src_file[1]

HasDocstring(stmt) ==
    stmt.node.type \in {"ClassDef", "FunctionDef", "AsyncFunctionDef"}

\* the docstring of the k-th statement is rewritten, added or removed in
\* place: no line moves
EditDocstring(k, d) ==
    /\ Editable
    /\ k \in 1..Len(src_file[1].stmts)
    /\ HasDocstring(src_file[1].stmts[k])
    /\ d # src_file[1].stmts[k].docstring
    /\ src_file' = Some([src_file[1] EXCEPT !.stmts[k].docstring = d])
    /\ UNCHANGED <<parsed, include_private>>

\* the docstring of the j-th member of the class that is the k-th statement
EditMemberDocstring(k, j, d) ==
    /\ Editable
    /\ k \in 1..Len(src_file[1].stmts)
    /\ j \in 1..Len(src_file[1].stmts[k].members)
    /\ HasDocstring(src_file[1].stmts[k].members[j])
    /\ d # src_file[1].stmts[k].members[j].docstring
    /\ src_file' =
          Some([src_file[1] EXCEPT !.stmts[k].members[j].docstring = d])
    /\ UNCHANGED <<parsed, include_private>>

\* a blank line is inserted above the k-th statement: it and what follows
\* move down by one line
InsertBlankLine(k) ==
    /\ Editable
    /\ k \in 1..Len(src_file[1].stmts)
    /\ src_file[1].stmts[k].gap > 0
    /\ src_file' = Some([src_file[1] EXCEPT !.stmts[k].gap = @ + 1])
    /\ UNCHANGED <<parsed, include_private>>

IdsNext ==
    /\ \/ ParseSource
       \/ \E k \in 1..MaxStmts, d \in Docstrings : EditDocstring(k, d)
       \/ \E k \in 1..MaxStmts, j \in 1..2, d \in Docstrings :
              EditMemberDocstring(k, j, d)
       \/ \E k \in 1..MaxStmts : InsertBlankLine(k)
    /\ UNCHANGED <<storeVars, procVars, tree, module, classVars, paramVars,
                   excludeVars, optionVars, extractVars, tocVars, titleVars,
                   siteVars>>

SpecIds == IdsInit /\ [][IdsNext]_vars

\* the ids of a list of components, in order
IdsOf(list) == [k \in 1..Len(list) |-> list[k].id]

RECURSIVE Flat(_)
Flat(ss) == IF ss = <<>> THEN <<>> ELSE Head(ss) \o Flat(Tail(ss))

\* the ids of a class and of its members
ClassIdList(c) ==
    <<c.id>> \o IdsOf(c.methods) \o IdsOf(c.properties)
             \o IdsOf(c.class_variables)

\* the ids of a module record and of all its components
IdList(m) ==
    <<m.id>> \o Flat([k \in 1..Len(m.classes) |-> ClassIdList(m.classes[k])])
             \o IdsOf(m.functions) \o IdsOf(m.constants)

\* a component with its kind, its qualified name, its line and its id
Comp(kind, qualified, c) ==
    [kind |-> kind, qualified |-> qualified, line_number |-> c.line_number,
     id |-> c.id]

CompsOf(kind, prefix, list) ==
    {Comp(kind, prefix \o <<list[k].name>>, list[k]) : k \in 1..Len(list)}

Comps(m) ==
    {Comp("module", <<m.name>>, m)}
    \cup CompsOf("class", <<>>, m.classes)
    \cup CompsOf("function", <<>>, m.functions)
    \cup CompsOf("constant", <<>>, m.constants)
    \cup UNION {CompsOf("method", <<m.classes[k].name>>,
                          m.classes[k].methods)
                 \cup CompsOf("property", <<m.classes[k].name>>,
                               m.classes[k].properties)
                 \cup CompsOf("class_variable", <<m.classes[k].name>>,
                               m.classes[k].class_variables) :
                 k \in 1..Len(m.classes)}

\* a source file with its docstrings blanked
WithoutDocstrings(file) ==
    [file EXCEPT !.stmts =
        [k \in 1..Len(file.stmts) |->
            [file.stmts[k] EXCEPT
                !.docstring = None,
                !.members = [j \in 1..Len(@) |->
                                [@[j] EXCEPT !.docstring = None]]]]]

\* C21: the id of a component is fixed by the file's relative path, the
\* component's qualified name and its declaration line.  Two runs over the
\* same file, or over files that differ in docstrings only, yield the same
\* ids; and across the runs a component of one kind and qualified name has
\* the same id exactly when it stands on the same line.
C21_IdFromPathNameAndLine ==
    \A i, j \in 1..Len(parsed) :
        /\ WithoutDocstrings(parsed[i].file) = WithoutDocstrings(parsed[j].file)
              => IdList(parsed[i].module) = IdList(parsed[j].module)
        /\ \A c \in Comps(parsed[i].module), d \in Comps(parsed[j].module) :
              (c.kind = d.kind /\ c.qualified = d.qualified)
                  => (c.id = d.id <=> c.line_number = d.line_number)

\* a docstring was rewritten between the runs, and the functions, classes
\* and methods kept their ids
C21_Witness ==
    /\ Len(parsed) = 2
    /\ parsed[1].file # parsed[2].file
    /\ WithoutDocstrings(parsed[1].file) = WithoutDocstrings(parsed[2].file)
    /\ Len(IdList(parsed[1].module)) > 2
    /\ parsed[1].module # parsed[2].module
    /\ IdList(parsed[1].module) = IdList(parsed[2].module)

\* a blank line moved a method down between the runs, and its id changed
C21_WitnessLineMoved ==
    /\ Len(parsed) = 2
    /\ \E c \in Comps(parsed[1].module), d \in Comps(parsed[2].module) :
          /\ c.kind = "method" /\ d.kind = "method"
          /\ c.qualified = d.qualified
          /\ c.line_number # d.line_number
          /\ c.id # d.id

\* the file was parsed twice unchanged
C21_WitnessUnchanged ==
    /\ Len(parsed) = 2
    /\ parsed[1].file = parsed[2].file
    /\ Len(IdList(parsed[1].module)) > 2

\* C29: within one parsed module the key triples (relative path, name as
\* passed to generate_id, line) of the module record and of all its
\* components are pairwise distinct.
C29_KeyTriplesDistinct ==
    \A r \in 1..Len(parsed) :
        LET ids == IdList(parsed[r].module)
        IN  \A a, b \in 1..Len(ids) : a # b => ids[a] # ids[b]

(***************************************************************************)
(* TOCGenerator (toc/generator.py).  Titles are sequences of characters,   *)
(* as names are.  The CLI builds every TOCGenerator with its defaults.     *)
(***************************************************************************)
MaxModules == 2      \* modules handed to generate

include_methods    == TRUE
include_properties == TRUE

UpperCase == {"A", "B", "C", "D", "E", "F", "G", "H", "I", "J", "K", "L", "M",
              "N", "O", "P", "Q", "R", "S", "T", "U", "V", "W", "X", "Y", "Z"}
LowerCase == {"a", "b", "c", "d", "e", "f", "g", "h", "i", "j", "k", "l", "m",
              "n", "o", "p", "q", "r", "s", "t", "u", "v", "w", "x", "y", "z"}

\* str.isupper: no cased character is lower-case and one is upper-case
isupper(name) ==
    /\ \A k \in 1..Len(name) : name[k] \notin LowerCase
    /\ \E k \in 1..Len(name) : name[k] \in UpperCase

\* _is_significant_constant with every constant accepted
is_significant_constant_any(name) == TRUE

\* _is_significant_constant
is_significant_constant(name) ==
    IF isupper(name) THEN TRUE
    ELSE IF name \in {NameVersion, NameAuthor, NameAll} THEN TRUE
         ELSE FALSE

TOCEntry(id, title, component_type, level, parent_id, file_path, line_number, children) ==
    [id |-> id, title |-> title, component_type |-> component_type,
     level |-> level, parent_id |-> parent_id, file_path |-> file_path,
     line_number |-> line_number, children |-> children]

\* str.replace of one character by another
RECURSIVE replace(_, _, _)
replace(s, old, new) ==
    IF s = "" THEN ""
    ELSE (IF SubSeq(s, 1, 1) = old THEN new ELSE SubSeq(s, 1, 1))
         \o replace(SubSeq(s, 2, Len(s)), old, new)

\* _format_module_title: the path in dotted notation, without ".py"
format_module_title(m) ==
    LET path == replace(replace(m.file_path, "/", "."), "\\", ".")
    IN  Chars(IF Len(path) >= 3 /\ SubSeq(path, Len(path) - 2, Len(path)) = ".py"
              THEN SubSeq(path, 1, Len(path) - 3)
              ELSE path)

\* _format_class_title of a class that names no base class
format_class_title(cls) == cls.name

\* str.join
RECURSIVE join(_, _)
join(sep, pieces) ==
    IF pieces = <<>> THEN <<>>
    ELSE IF Len(pieces) = 1 THEN pieces[1]
         ELSE pieces[1] \o sep \o join(sep, Tail(pieces))

\* the truth value of an optional string
Truthy(text) == text # None /\ text[1] # ""

FirstN(s, n) == SubSeq(s, 1, IF Len(s) < n THEN Len(s) ELSE n)

\* _format_function_title
format_function_title(func) ==
    LET shown  == FirstN(func.parameters, 3)
        pieces == [k \in 1..Len(shown) |->
                      IF Truthy(shown[k].default_value)
                      THEN shown[k].name \o Chars("=...")
                      ELSE shown[k].name]
                  \o (IF Len(func.parameters) > 3 THEN <<Chars("...")>>
                      ELSE <<>>)
        prefix == IF func.is_async THEN Chars("async ") ELSE <<>>
    IN  prefix \o func.name \o <<"(">> \o join(Chars(", "), pieces) \o <<")">>

\* _format_method_title
format_method_title(method) ==
    LET shown  == FirstN(method.parameters, 2)
        pieces == [k \in 1..Len(shown) |-> shown[k].name]
                  \o (IF Len(method.parameters) > 2 THEN <<Chars("...")>>
                      ELSE <<>>)
        prefix == IF method.is_static THEN Chars("@staticmethod ")
                  ELSE IF method.is_classmethod THEN Chars("@classmethod ")
                       ELSE IF method.is_async THEN Chars("async ")
                            ELSE <<>>
    IN  prefix \o method.name \o <<"(">> \o join(Chars(", "), pieces) \o <<")">>

\* _create_class_entry; the components of a module carry its file_path
create_class_entry(cls, parent_id, file_path) ==
    LET Leaf(c, t, type) ==
            TOCEntry(c.id, t, type, 2, Some(cls.id), file_path,
                     c.line_number, <<>>)
        methods ==
            IF include_methods
            THEN [k \in 1..Len(cls.methods) |->
                     Leaf(cls.methods[k],
                          format_method_title(cls.methods[k]), "method")]
            ELSE <<>>
        properties ==
            IF include_properties
            THEN [k \in 1..Len(cls.properties) |->
                     Leaf(cls.properties[k], cls.properties[k].name,
                          "property")]
                 \o [k \in 1..Len(cls.class_variables) |->
                        Leaf(cls.class_variables[k],
                             cls.class_variables[k].name, "variable")]
            ELSE <<>>
    IN  TOCEntry(cls.id, format_class_title(cls), "class", 1, parent_id,
                 file_path, cls.line_number, methods \o properties)

\* _create_function_entry
create_function_entry(func, parent_id, file_path) ==
    TOCEntry(func.id, format_function_title(func), "function", 1, parent_id,
             file_path, func.line_number, <<>>)

\* _create_module_entry with the children one level too deep
create_module_entry_deep(m) ==
    TOCEntry(m.id, format_module_title(m), "module", 0, None, m.file_path,
             m.line_number,
             [k \in 1..Len(m.functions) |->
                 [create_function_entry(m.functions[k], Some(m.id),
                                        m.file_path) EXCEPT !.level = 2]])

\* _create_module_entry
create_module_entry(m) ==
    LET Significant(const) == is_significant_constant(const.name)
        constants == SelectSeq(m.constants, Significant)
    IN  TOCEntry(m.id, format_module_title(m), "module", 0, None,
                 m.file_path, m.line_number,
                 [k \in 1..Len(m.classes) |->
                     create_class_entry(m.classes[k], Some(m.id),
                                        m.file_path)]
                 \o [k \in 1..Len(m.functions) |->
                        create_function_entry(m.functions[k], Some(m.id),
                                              m.file_path)]
                 \o [k \in 1..Len(constants) |->
                        TOCEntry(constants[k].id, constants[k].name,
                                 "constant", 1, Some(m.id), m.file_path,
                                 constants[k].line_number, <<>>)])

\* generate
generate(modules) ==
    [k \in 1..Len(modules) |-> create_module_entry(modules[k])]

\* flatten: each entry, then its children, depth first
RECURSIVE flatten(_)
flatten(entries) ==
    IF entries = <<>> THEN <<>>
    ELSE <<Head(entries)>> \o flatten(Head(entries).children)
         \o flatten(Tail(entries))

\* get_entry_by_id: the first entry of the flattened outline with the id
get_entry_by_id(entries, entry_id) ==
    LET flat == flatten(entries)
        hits == {k \in 1..Len(flat) : flat[k].id = entry_id}
    IN  IF hits = {} THEN None
        ELSE Some(flat[CHOOSE k \in hits : \A j \in hits : k <= j])

\* _filter_entry with the children of an excluded entry kept at its place
RECURSIVE filter_entries_lifted(_, _)
filter_entries_lifted(entries, selections) ==
    IF entries = <<>> THEN <<>>
    ELSE LET entry == Head(entries)
             children == filter_entries_lifted(entry.children, selections)
         IN  (IF entry.id \in DOMAIN selections /\ ~selections[entry.id]
              THEN children
              ELSE <<[entry EXCEPT !.children = children]>>)
             \o filter_entries_lifted(Tail(entries), selections)

\* filter_by_selections: _filter_entry over the entries in order; an
\* excluded entry is dropped before its children are looked at
RECURSIVE filter_by_selections(_, _)
filter_by_selections(entries, selections) ==
    IF entries = <<>> THEN <<>>
    ELSE LET entry == Head(entries)
         IN  (IF entry.id \in DOMAIN selections /\ ~selections[entry.id]
              THEN <<>>
              ELSE <<TOCEntry(entry.id, entry.title, entry.component_type,
                              entry.level, entry.parent_id, entry.file_path,
                              entry.line_number,
                              filter_by_selections(entry.children,
                                                   selections))>>)
             \o filter_by_selections(Tail(entries), selections)

\* the source files of one statement at most
SmallFiles == {f \in SourceFiles : Len(f.stmts) <= 1}

\* the files of a one-module list: any file at A.py, a small one elsewhere
TocFiles == {f \in SourceFiles : f.path = "A.py" \/ Len(f.stmts) <= 1}

\* what extract() can hand to generate: modules with a public API, each of
\* another file; lists of several modules are built from the small files
Extractable(files, private) ==
    {m \in {parse_file_at(f, private) : f \in files} : has_public_api(m)}

ModuleLists(private) ==
    {<<>>}
    \cup {<<m>> : m \in Extractable(TocFiles, private)}
    \cup {ms \in UNION {[1..n -> Extractable(SmallFiles, private)] :
                           n \in 2..MaxModules} :
            \A i, j \in 1..Len(ms) : ms[i].file_path = ms[j].file_path => i = j}

\* the id -> bool maps handed to filter_by_selections: up to two ids of the
\* outline, each included or excluded
SelectionChoices(entries) ==
    LET ids == OutlineIds(entries)
    IN  UNION {[S -> BOOLEAN] : S \in {S \in SUBSET ids : Cardinality(S) <= 2}}

TocInit ==
    /\ StoreInit
    /\ ProcIdle
    /\ tree = <<>>
    /\ module = None
    /\ include_private \in BOOLEAN
    /\ ClassIdle
    /\ ParamsIdle
    /\ ExcludeIdle
    /\ OptionsIdle
    /\ ExtractIdle
    /\ IdsIdle
    /\ mods \in ModuleLists(include_private)
    /\ toc = None
    /\ chosen = EmptyMap
    /\ filtered = None
    /\ TitleIdle
    /\ SiteIdle

\* toc_entries = TOCGenerator().generate(modules)
Generate ==
    /\ toc = None
    /\ toc' = Some(generate(mods))
    /\ UNCHANGED <<mods, chosen, filtered, include_private>>

\* filter_by_selections(toc_entries, selections): the entries handed in are
\* read, never written
Filter(selections) ==
    /\ toc # None
    /\ filtered = None
    /\ chosen' = selections
    /\ filtered' = Some(filter_by_selections(toc[1], selections))
    /\ UNCHANGED <<mods, toc, include_private>>

TocNext ==
    /\ \/ Generate
       \/ toc # None /\ \E selections \in SelectionChoices(toc[1]) :
                            Filter(selections)
    /\ UNCHANGED <<storeVars, procVars, tree, module, classVars, paramVars,
                   excludeVars, optionVars, extractVars, idVars, titleVars,
                   siteVars>>

SpecToc == TocInit /\ [][TocNext]_vars

\* every child is one level below its parent and names it as parent
RECURSIVE WellNested(_)
WellNested(e) ==
    \A k \in 1..Len(e.children) :
        /\ e.children[k].level = e.level + 1
        /\ e.children[k].parent_id = Some(e.id)
        /\ WellNested(e.children[k])

\* classes, functions and constants under the module; methods, properties
\* and class variables under a class; nothing below a leaf
WellTyped(e) ==
    \A k \in 1..Len(e.children) :
        LET c == e.children[k]
        IN  /\ c.component_type \in {"class", "function", "constant"}
            /\ c.level = 1
            /\ \A j \in 1..Len(c.children) :
                  /\ c.component_type = "class"
                  /\ c.children[j].component_type \in
                        {"method", "property", "variable"}
                  /\ c.children[j].level = 2
                  /\ c.children[j].children = <<>>

\* C22: an outline has one root per input module, in input order; a root has
\* level 0 and no parent_id; every child has its parent's level + 1 and its
\* parent's id as parent_id: classes, functions and constants at level 1
\* under their module, methods, properties and class variables at level 2
\* under their class.
C22_OutlineShape ==
    toc # None =>
        /\ Len(toc[1]) = Len(mods)
        /\ \A k \in 1..Len(mods) :
              /\ toc[1][k].id = mods[k].id
              /\ toc[1][k].component_type = "module"
              /\ toc[1][k].level = 0
              /\ toc[1][k].parent_id = None
              /\ WellNested(toc[1][k])
              /\ WellTyped(toc[1][k])
              /\ Len(toc[1][k].children) >= Len(mods[k].classes)
                                            + Len(mods[k].functions)
              /\ \A j \in 1..Len(mods[k].classes) :
                    Len(toc[1][k].children[j].children) =
                        Len(mods[k].classes[j].methods)
                        + Len(mods[k].classes[j].properties)
                        + Len(mods[k].classes[j].class_variables)

\* a module with a class that has a method and a class variable, and with
\* a function or a constant next to the class
C22_Witness ==
    /\ toc # None
    /\ \E k \in 1..Len(toc[1]) :
          /\ Len(toc[1][k].children) >= 2
          /\ toc[1][k].children[1].component_type = "class"
          /\ Len(toc[1][k].children[1].children) = 2
          /\ toc[1][k].children[1].children[1].component_type = "method"
          /\ toc[1][k].children[1].children[2].component_type = "variable"

\* two modules, the one of pkg/B.py first
C22_WitnessTwoModules ==
    /\ toc # None
    /\ Len(toc[1]) = 2
    /\ toc[1][1].file_path = "pkg/B.py"
    /\ toc[1][2].file_path = "A.py"
    /\ toc[1][2].children # <<>>

\* the entries of the constants of a module, in order
ConstantEntries(e) ==
    LET IsConstant(c) == c.component_type = "constant"
    IN  SelectSeq(e.children, IsConstant)

\* a name all of whose letters are upper-case, or a dunder metadata name
EntirelyUpperCase(name) ==
    /\ \E k \in 1..Len(name) : name[k] \in UpperCase
    /\ \A k \in 1..Len(name) : name[k] \notin LowerCase

MetadataNames == {Chars("__version__"), Chars("__author__"), Chars("__all__")}

\* C25: a module-level constant has an entry at level 1 under its module
\* iff its name is entirely upper-case or is __version__, __author__ or
\* __all__; any other constant has no entry and stays in the module's
\* constants.
C25_SignificantConstantsOnly ==
    toc # None =>
        \A k \in 1..Len(mods) :
            LET Wanted(const) == \/ EntirelyUpperCase(const.name)
                                 \/ const.name \in MetadataNames
                wanted == SelectSeq(mods[k].constants, Wanted)
                found  == ConstantEntries(toc[1][k])
            IN  /\ Len(found) = Len(wanted)
                /\ \A j \in 1..Len(found) :
                      /\ found[j].id = wanted[j].id
                      /\ found[j].title = wanted[j].name
                      /\ found[j].line_number = wanted[j].line_number
                      /\ found[j].level = 1
                      /\ found[j].parent_id = Some(mods[k].id)

\* Ab, __version__ and _c are constants of the module; only __version__ has
\* an entry
C25_Witness ==
    /\ toc # None
    /\ \E k \in 1..Len(mods) :
          /\ [j \in 1..Len(mods[k].constants) |-> mods[k].constants[j].name]
                = <<NameMixed, NameVersion, NamePriv>>
          /\ [j \in 1..Len(ConstantEntries(toc[1][k])) |->
                 ConstantEntries(toc[1][k])[j].title] = <<NameVersion>>

\* an upper-case constant has an entry
C25_WitnessUpperCase ==
    /\ toc # None
    /\ \E k \in 1..Len(mods) :
          /\ Len(mods[k].constants) = 1
          /\ mods[k].constants[1].name = NameB
          /\ Len(ConstantEntries(toc[1][k])) = 1

\* the number of entries of an outline, all levels
RECURSIVE Size(_)
Size(entries) ==
    IF entries = <<>> THEN 0
    ELSE 1 + Size(Head(entries).children) + Size(Tail(entries))

\* in a list in pre-order the descendants of the entry at position p are
\* the Size(children) entries behind it, its children the ones among them
\* that are its own, in order
SubtreeFollows(flat, p) ==
    LET n == Size(flat[p].children)
        own == {q \in (p + 1)..(p + n) : flat[q].level = flat[p].level + 1}
        idx == Ascending(own)
    IN  /\ p + n <= Len(flat)
        /\ \A q \in (p + 1)..(p + n) : flat[q].level > flat[p].level
        /\ [k \in 1..Len(idx) |-> flat[idx[k]]] = flat[p].children

\* flatten lists every entry once, each parent before its children, depth
\* first
FlattenIsPreorder ==
    toc # None =>
        LET flat == flatten(toc[1])
            roots == Ascending({q \in 1..Len(flat) : flat[q].level = 0})
        IN  /\ Len(flat) = Size(toc[1])
            /\ [k \in 1..Len(roots) |-> flat[roots[k]]] = toc[1]
            /\ \A p \in 1..Len(flat) : SubtreeFollows(flat, p)

\* an outline of two levels below the root is flattened
FlattenIsPreorderWitness ==
    /\ toc # None
    /\ \E p \in 1..Len(flatten(toc[1])) : flatten(toc[1])[p].level = 2
    /\ flatten(toc[1])[Len(flatten(toc[1]))].level = 1

\* C23: flatten lists every entry of a generated outline once, in pre-order,
\* and get_entry_by_id on the id of each flattened entry returns that very
\* entry: no two entries of the outline share an id.
C23_FlattenAndLookup ==
    toc # None =>
        LET flat == flatten(toc[1])
        IN  /\ Len(flat) = Size(toc[1])
            /\ \A p \in 1..Len(flat) : SubtreeFollows(flat, p)
            /\ \A p \in 1..Len(flat) :
                  get_entry_by_id(toc[1], flat[p].id) = Some(flat[p])
            /\ \A p, q \in 1..Len(flat) : flat[p].id = flat[q].id => p = q

\* an entry without its children
Strip(e) ==
    [id |-> e.id, title |-> e.title, component_type |-> e.component_type,
     level |-> e.level, parent_id |-> e.parent_id, file_path |-> e.file_path,
     line_number |-> e.line_number]

\* the id is absent from the map handed to the filter, or mapped to TRUE
NotExcluded(id) == id \notin DOMAIN chosen \/ chosen[id]

\* the position of the parent of the entry at position p > 1 of a list in
\* pre-order
ParentPos(flat, p) ==
    CHOOSE q \in 1..(p - 1) :
        /\ flat[q].level = flat[p].level - 1
        /\ \A r \in (q + 1)..(p - 1) : flat[r].level >= flat[p].level

\* the entry at position p is not excluded, and neither is an ancestor
RECURSIVE KeptAt(_, _)
KeptAt(flat, p) ==
    /\ NotExcluded(flat[p].id)
    /\ flat[p].level > 0 => KeptAt(flat, ParentPos(flat, p))

\* C24: filter_by_selections returns a new outline that keeps an entry iff
\* its id is absent from the map or mapped to included and its parent was
\* kept; the kept entries keep their order, level and parent_id (and their
\* other fields); the outline handed in is as it was.
C24_FilterKeepsIncluded ==
    filtered # None =>
        LET fin  == flatten(toc[1])
            fout == flatten(filtered[1])
            idx  == Ascending({p \in 1..Len(fin) : KeptAt(fin, p)})
        IN  /\ toc[1] = generate(mods)
            /\ [k \in 1..Len(fout) |-> Strip(fout[k])]
                  = [k \in 1..Len(idx) |-> Strip(fin[idx[k]])]
            /\ \A p \in 1..Len(fout) : SubtreeFollows(fout, p)

\* a method is excluded and its class is kept with the other member; the
\* map does not name the class
C24_Witness ==
    /\ filtered # None
    /\ \E k \in 1..Len(toc[1]) :
          /\ toc[1][k].children # <<>>
          /\ Len(toc[1][k].children[1].children) = 2
          /\ toc[1][k].children[1].id \notin DOMAIN chosen
          /\ toc[1][k].children[1].children[1].id \in DOMAIN chosen
          /\ ~chosen[toc[1][k].children[1].children[1].id]
          /\ Len(filtered[1]) = Len(toc[1])
          /\ Len(filtered[1][k].children[1].children) = 1
          /\ filtered[1][k].children[1].children[1]
                = toc[1][k].children[1].children[2]

\* C30: filter_by_selections drops every descendant of an excluded entry,
\* also one the map marks as included: an entry is in the filtered outline
\* only if each of its ancestors is.
C30_ExcludedSubtreeDropped ==
    filtered # None =>
        LET fout == flatten(filtered[1])
        IN  \A p \in 1..Len(fout) :
               /\ NotExcluded(fout[p].id)
               /\ fout[p].parent_id # None =>
                     /\ NotExcluded(fout[p].parent_id[1])
                     /\ p > 1
                     /\ fout[ParentPos(fout, p)].id = fout[p].parent_id[1]

\* a class is excluded while the map marks its method as included: neither
\* is in the filtered outline, the module is
C30_Witness ==
    /\ filtered # None
    /\ \E k \in 1..Len(toc[1]) :
          /\ toc[1][k].children # <<>>
          /\ toc[1][k].children[1].children # <<>>
          /\ toc[1][k].children[1].id \in DOMAIN chosen
          /\ ~chosen[toc[1][k].children[1].id]
          /\ toc[1][k].children[1].children[1].id \in DOMAIN chosen
          /\ chosen[toc[1][k].children[1].children[1].id]
          /\ Len(filtered[1]) = Len(toc[1])
          /\ \A p \in 1..Len(flatten(filtered[1])) :
                flatten(filtered[1])[p].id \notin
                    {toc[1][k].children[1].id,
                     toc[1][k].children[1].children[1].id}

(***************************************************************************)
(* Titles of function and method entries.  The parameters are those        *)
(* _parse_parameters returned: a name and the text of the default, if any. *)
(***************************************************************************)
MaxParams == 4       \* parameters of a titled function or method

ParamNames == <<Chars("a"), Chars("b"), Chars("c"), Chars("d"), Chars("e"),
                Chars("f")>>

\* the k-th parameter is named by the k-th letter
ParameterLists ==
    UNION {{[k \in 1..n |-> ParameterInfo(ParamNames[k], ds[k])] :
               ds \in [1..n -> {None, Some("1")}]} : n \in 0..MaxParams}

Callables ==
    {[kind |-> "function", name |-> NameA, parameters |-> ps,
      is_async |-> a, is_static |-> FALSE, is_classmethod |-> FALSE] :
        ps \in ParameterLists, a \in BOOLEAN}
    \cup {[kind |-> "method", name |-> NameA, parameters |-> ps,
           is_async |-> a, is_static |-> s, is_classmethod |-> c] :
            ps \in ParameterLists, a \in BOOLEAN, s \in BOOLEAN,
            c \in BOOLEAN}

TitleInit ==
    /\ StoreInit
    /\ ProcIdle
    /\ tree = <<>>
    /\ include_private = FALSE
    /\ module = None
    /\ ClassIdle
    /\ ParamsIdle
    /\ ExcludeIdle
    /\ OptionsIdle
    /\ ExtractIdle
    /\ IdsIdle
    /\ TocIdle
    /\ callee \in {Some(c) : c \in Callables}
    /\ rendered = None
    /\ SiteIdle

\* the title of the entry of a function (_create_function_entry) or of a
\* method (_create_class_entry)
FormatTitle ==
    /\ rendered = None
    /\ rendered' = Some(IF callee[1].kind = "function"
                        THEN format_function_title(callee[1])
                        ELSE format_method_title(callee[1]))
    /\ UNCHANGED callee

TitleNext ==
    /\ FormatTitle
    /\ UNCHANGED <<storeVars, procVars, tree, include_private, module,
                   classVars, paramVars, excludeVars, optionVars,
                   extractVars, idVars, tocVars, siteVars>>

SpecTitle == TitleInit /\ [][TitleNext]_vars

\* the parameter list of a title that shows the first n parameters, one
\* with a default as name=..., and "..." when there are more
ShownParameters(ps, n) ==
    LET shown == FirstN(ps, n)
    IN  <<"(">>
        \o join(Chars(", "),
                [k \in 1..Len(shown) |->
                    IF shown[k].default_value # None
                    THEN shown[k].name \o Chars("=...")
                    ELSE shown[k].name]
                \o (IF Len(ps) > n THEN <<Chars("...")>> ELSE <<>>))
        \o <<")">>

EndsWith(text, suffix) ==
    /\ Len(text) >= Len(suffix)
    /\ SubSeq(text, Len(text) - Len(suffix) + 1, Len(text)) = suffix

\* C26: a function title shows the first 3 parameters at most, a method
\* title the first 2, then "..." when there are more; in both a parameter
\* with a default is shown as name=...
C26_TitlesShowDefaults ==
    rendered # None =>
        EndsWith(rendered[1],
                 callee[1].name
                 \o ShownParameters(callee[1].parameters,
                                    IF callee[1].kind = "function"
                                    THEN 3 ELSE 2))

\* function titles are as described
FunctionTitlesShowDefaults ==
    (rendered # None /\ callee[1].kind = "function") =>
        EndsWith(rendered[1],
                 callee[1].name \o ShownParameters(callee[1].parameters, 3))

\* A(a=..., b, c=..., ...)
FunctionTitlesShowDefaultsWitness ==
    /\ rendered = Some(Chars("A(a=..., b, c=..., ...)"))
    /\ callee[1].kind = "function"

\* method titles show the bare names of the first 2 parameters, with or
\* without default
MethodTitlesShowNames ==
    (rendered # None /\ callee[1].kind = "method") =>
        EndsWith(rendered[1],
                 callee[1].name
                 \o ShownParameters(
                       [k \in 1..Len(callee[1].parameters) |->
                           ParameterInfo(callee[1].parameters[k].name, None)],
                       2))

\* the method A(a, b=1, c) is titled A(a, b, ...)
MethodTitlesShowNamesWitness ==
    /\ rendered = Some(Chars("A(a, b, ...)"))
    /\ callee[1].kind = "method"
    /\ callee[1].parameters[2].default_value # None

(***************************************************************************)
(* The interactive select session (cli.py: select).  The session holds the *)
(* map initialize_from_toc returned and the flattened outline; toggle,     *)
(* include and exclude change the map in memory, save and quit write it.   *)
(* An entry is named by its number in the list or by the start of its id.  *)
(***************************************************************************)
EntryRef(text, number) == [text |-> text, number |-> number]

\* what a user types behind a command: a number (int() parses it) or text
EntryRefs ==
    {EntryRef("1", Some(1)), EntryRef("2", Some(2)), EntryRef("9", Some(9)),
     EntryRef("zz", None)}
    \cup {EntryRef(i, None) : i \in Ids}

\* _find_entry: the entry of that number, else the first entry whose id
\* starts with the text, else None
find_entry(entry_ref, entries) ==
    IF /\ entry_ref.number # None
       /\ 0 <= entry_ref.number[1] - 1
       /\ entry_ref.number[1] - 1 < Len(entries)
    THEN Some(entries[entry_ref.number[1]])
    ELSE LET hits == {k \in 1..Len(entries) :
                        /\ Len(entry_ref.text) <= Len(entries[k].id)
                        /\ SubSeq(entries[k].id, 1, Len(entry_ref.text))
                              = entry_ref.text}
         IN  IF hits = {} THEN None
             ELSE Some(entries[CHOOSE k \in hits : \A j \in hits : k <= j])

\* _toggle_selection on an entry that was found
toggle_selection(entry, selections) ==
    LET new_value == ~(entry.id \notin DOMAIN selections
                       \/ selections[entry.id].included)
    IN  Put(selections, entry.id,
            TOCSelection(entry.id, new_value, None, None))

\* _set_selection on an entry that was found
set_selection(entry, selections, included) ==
    Put(selections, entry.id, TOCSelection(entry.id, included, None, None))

\* the stores a session starts from: no file, or a map whose entries have
\* a custom title and description or neither
SessionStores ==
    {NoFile}
    \cup {save_selections(m) :
            m \in {m \in SelectionMaps :
                      \A i \in DOMAIN m :
                          m[i].custom_title = None
                              <=> m[i].custom_description = None}}

SelectInit ==
    /\ NoCommand
    /\ ProcIdle
    /\ ParseIdle
    /\ descFile = NoFile
    /\ xfile = NoExport
    /\ exported = EmptyMap
    /\ selFile \in SessionStores

\* select, up to its prompt: the outline of the repository is generated,
\* initialize_from_toc merges it with the store and saves the result
SelectStart(f) ==
    /\ Idle
    /\ session = None
    /\ f # <<>>
    /\ LET l == load_selections(selFile)
           entries == OutlineOf(f)
       IN  IF l.raised
           THEN /\ Did("select", [entries |-> entries], l)
                /\ UNCHANGED <<selFile, session>>
           ELSE LET selections == initialized_selections(l.value, entries,
                                                         TRUE)
                IN  /\ selFile' = save_selections(selections)
                    /\ session' = Some([flat_entries |-> flatten(entries),
                                        selections |-> selections,
                                        before |-> l.value,
                                        touched |-> {}])
                    /\ UNCHANGED <<op, arg, ret, pre>>
    /\ UNCHANGED <<descFile, xfile, exported, site>>

\* "toggle <id/number>"
SelectToggle(entry_ref) ==
    /\ session # None
    /\ LET entry == find_entry(entry_ref, session[1].flat_entries)
       IN  IF entry = None THEN UNCHANGED session
           ELSE session' =
                  Some([session[1] EXCEPT
                          !.selections = toggle_selection(entry[1], @),
                          !.touched = @ \cup {entry[1].id}])
    /\ UNCHANGED <<storeVars, site>>

\* "include <id/number>" and "exclude <id/number>"
SelectSet(entry_ref, included) ==
    /\ session # None
    /\ LET entry == find_entry(entry_ref, session[1].flat_entries)
       IN  IF entry = None THEN UNCHANGED session
           ELSE session' =
                  Some([session[1] EXCEPT
                          !.selections = set_selection(entry[1], @, included),
                          !.touched = @ \cup {entry[1].id}])
    /\ UNCHANGED <<storeVars, site>>

\* "save"
SelectSave ==
    /\ session # None
    /\ selFile' = save_selections(session[1].selections)
    /\ UNCHANGED <<descFile, xfile, exported, op, arg, ret, pre, session,
                   site>>

\* "quit", end of input or an interrupt: the map is saved on exit
SelectQuit ==
    /\ session # None
    /\ selFile' = save_selections(session[1].selections)
    /\ Did("select",
           [flat_entries |-> session[1].flat_entries,
            before |-> session[1].before,
            touched |-> session[1].touched],
           Ok(session[1].selections))
    /\ session' = None
    /\ UNCHANGED <<descFile, xfile, exported, site>>

SelectNext ==
    /\ \/ Idle /\ \E f \in FlatOutlines : SelectStart(f)
       \/ \E entry_ref \in EntryRefs : SelectToggle(entry_ref)
       \/ \E entry_ref \in EntryRefs, b \in BOOLEAN : SelectSet(entry_ref, b)
       \/ SelectSave
       \/ SelectQuit
       \/ Exit /\ UNCHANGED siteVars
    /\ UNCHANGED <<procVars, tree, include_private, module, classVars,
                   paramVars, excludeVars, optionVars, extractVars, idVars,
                   tocVars, titleVars>>

SpecSelect == SelectInit /\ [][SelectNext]_vars

\* a select session ended and saved
Selected == op = "select" /\ ~ret.raised

\* C28: a toggle, include or exclude command changes only the included
\* flag of its entry: the custom_title and custom_description stored for an
\* entry before the session are in the map saved on exit.
C28_CommandsKeepCustomFields ==
    Selected =>
        LET now == load_selections(selFile).value
        IN  \A i \in DOMAIN now \cap DOMAIN arg.before :
               /\ now[i].custom_title = arg.before[i].custom_title
               /\ now[i].custom_description = arg.before[i].custom_description

\* the entries no command named are saved as they were stored, new ones as
\* included
SelectKeepsUntouched ==
    Selected =>
        LET now == load_selections(selFile).value
        IN  /\ DOMAIN now = {arg.flat_entries[k].id :
                                k \in 1..Len(arg.flat_entries)}
            /\ \A i \in DOMAIN now \ arg.touched :
                  now[i] = IF i \in DOMAIN arg.before THEN arg.before[i]
                           ELSE TOCSelection(i, TRUE, None, None)

\* one entry was toggled; another one, stored with a custom title, was not
SelectKeepsUntouchedWitness ==
    /\ Selected
    /\ arg.touched # {}
    /\ \E i \in DOMAIN arg.before \ arg.touched :
          /\ i \in DOMAIN load_selections(selFile).value
          /\ arg.before[i].custom_title # None

(***************************************************************************)
(* The generate command (cli.py: generate) and HTMLGenerator.generate.     *)
(* The runs pass --no-ai and not --editable; nothing is cached in          *)
(* descriptions.json, so the descriptions are empty.  What is written is   *)
(* kept by the ids it is about: the links of index.html, the module pages  *)
(* with the classes and functions on them, the records of search.json.     *)
(***************************************************************************)
\* the repositories of this specification, as extract() returns them: the
\* module of A.py (one statement), alone or followed by the module of
\* pkg/B.py with one function
GenModules == Extractable(SmallFiles, FALSE)

GenLists ==
    {<<a>> : a \in {m \in GenModules : m.file_path = "A.py"}}
    \cup {<<a, b>> : a \in {m \in GenModules : m.file_path = "A.py"},
                     b \in {m \in GenModules : /\ m.file_path = "pkg/B.py"
                                               /\ m.functions # <<>>}}

\* _build_component_lookup: the ids it has keys for
build_component_lookup(modules) ==
    UNION {{modules[k].id}
           \cup UNION {{c.id} \cup {c.methods[j].id : j \in 1..Len(c.methods)}
                              \cup {c.properties[j].id :
                                       j \in 1..Len(c.properties)} :
                       c \in {modules[k].classes[j] :
                                 j \in 1..Len(modules[k].classes)}}
           \cup {modules[k].functions[j].id :
                    j \in 1..Len(modules[k].functions)}
           \cup {modules[k].constants[j].id :
                    j \in 1..Len(modules[k].constants)} :
           k \in 1..Len(modules)}

\* included_ids of HTMLGenerator.generate
included_ids(modules, selections) ==
    IF selections # EmptyMap
    THEN {i \in DOMAIN selections : selections[i].included}
    ELSE build_component_lookup(modules)

\* index.html: the entries and children the template links
generate_index(toc_entries, selections) ==
    LET Included(e) == \/ selections = EmptyMap
                       \/ e.id \notin DOMAIN selections
                       \/ selections[e.id].included
        Link(e) == [id |-> e.id,
                    children |-> IdsOf(SelectSeq(e.children, Included))]
        shown == SelectSeq(toc_entries, Included)
    IN  [k \in 1..Len(shown) |-> Link(shown[k])]

\* _generate_module_page: the classes and functions the page is rendered
\* with
generate_module_page(m, selections, included) ==
    LET Kept(c) == c.id \in included \/ selections = EmptyMap
    IN  [module |-> m.id,
         classes |-> IdsOf(SelectSeq(m.classes, Kept)),
         functions |-> IdsOf(SelectSeq(m.functions, Kept))]

\* _generate_search_index: the records of search.json
generate_search_index(modules, included) ==
    LET In(c) == c.id \in included
        Record(type, c) == [type |-> type, id |-> c.id]
        OfClass(cls) ==
            IF In(cls)
            THEN <<Record("class", cls)>>
                 \o [j \in 1..Len(SelectSeq(cls.methods, In)) |->
                        Record("method", SelectSeq(cls.methods, In)[j])]
            ELSE <<>>
        OfModule(m) ==
            IF ~In(m) THEN <<>>
            ELSE <<Record("module", m)>>
                 \o Flat([j \in 1..Len(m.classes) |-> OfClass(m.classes[j])])
                 \o [j \in 1..Len(SelectSeq(m.functions, In)) |->
                        Record("function", SelectSeq(m.functions, In)[j])]
    IN  Flat([k \in 1..Len(modules) |-> OfModule(modules[k])])

\* HTMLGenerator.generate
html_generate(modules, toc_entries, selections) ==
    LET included == included_ids(modules, selections)
        HasPage(m) == m.id \in included \/ selections = EmptyMap
        paged == SelectSeq(modules, HasPage)
    IN  [index  |-> generate_index(toc_entries, selections),
         pages  |-> [k \in 1..Len(paged) |->
                        generate_module_page(paged[k], selections, included)],
         search |-> generate_search_index(modules, included)]

GenInit ==
    /\ StoreInit
    /\ ProcIdle
    /\ tree = <<>>
    /\ include_private = FALSE
    /\ module = None
    /\ ClassIdle
    /\ ParamsIdle
    /\ ExcludeIdle
    /\ OptionsIdle
    /\ ExtractIdle
    /\ IdsIdle
    /\ mods \in GenLists
    /\ toc = None
    /\ chosen = EmptyMap
    /\ filtered = None
    /\ TitleIdle
    /\ SiteIdle

RunsDone == IF site = None THEN 0 ELSE site[1].run

\* docuagent generate [--use-selections] --no-ai: steps 1 to 5
GenerateDocs(use_selections) ==
    /\ RunsDone < Len(RunOrder)
    /\ mods # <<>>
    /\ LET toc_entries == generate(mods)
           stored == load_selections(selFile).value
           initialized == initialized_selections(stored, toc_entries, TRUE)
           selections == IF use_selections /\ stored # EmptyMap
                         THEN stored ELSE initialized
       IN  /\ selFile' = IF use_selections /\ stored # EmptyMap
                         THEN selFile ELSE save_selections(initialized)
           /\ toc' = Some(toc_entries)
           /\ site' = Some([run |-> RunsDone + 1,
                            use_selections |-> use_selections,
                            modules |-> mods,
                            stored |-> stored,
                            output |-> html_generate(mods, toc_entries,
                                                     selections)])
    /\ UNCHANGED <<descFile, xfile, exported, op, arg, ret, pre, mods,
                   chosen, filtered, session>>

\* after the first run the user excludes one entry (select, or an edit of
\* selections.yaml)
ExcludeEntry(i) ==
    /\ RunsDone = 1
    /\ site[1].modules = mods
    /\ LET stored == load_selections(selFile).value
       IN  /\ i \in DOMAIN stored
           /\ \A j \in DOMAIN stored : stored[j].included
           /\ selFile' = save_selections(
                             Put(stored, i,
                                 TOCSelection(i, FALSE, None, None)))
    /\ UNCHANGED <<descFile, xfile, exported, op, arg, ret, pre, tocVars,
                   siteVars>>

\* the repository changes between the runs: files and definitions are
\* added, removed or moved
ChangeRepo(modules) ==
    /\ RunsDone = 1
    /\ site[1].modules = mods
    /\ modules # mods
    /\ mods' = modules
    /\ UNCHANGED <<storeVars, toc, chosen, filtered, siteVars>>

GenNext ==
    /\ \/ \E use_selections \in BOOLEAN : GenerateDocs(use_selections)
       \/ \E i \in build_component_lookup(mods) : ExcludeEntry(i)
       \/ \E modules \in GenLists : ChangeRepo(modules)
    /\ UNCHANGED <<procVars, tree, include_private, module, classVars,
                   paramVars, excludeVars, optionVars, extractVars, idVars,
                   titleVars>>

SpecGen == GenInit /\ [][GenNext]_vars

\* what the last run wrote about an id
HasModulePage(id) ==
    \E k \in 1..Len(site[1].output.pages) :
        site[1].output.pages[k].module = id

OnModulePage(id) ==
    \E k \in 1..Len(site[1].output.pages) :
        \/ InList(id, site[1].output.pages[k].classes)
        \/ InList(id, site[1].output.pages[k].functions)

InSearchIndex(id) ==
    \E k \in 1..Len(site[1].output.search) :
        site[1].output.search[k].id = id

IndexLinks(id) ==
    \E k \in 1..Len(site[1].output.index) :
        \/ site[1].output.index[k].id = id
        \/ InList(id, site[1].output.index[k].children)

\* the id is not known to the map stored before the run
NewId(id) == id \notin DOMAIN site[1].stored

\* the stored map does not exclude the id
StoredAllows(id) == NewId(id) \/ site[1].stored[id].included

\* the new modules have a page, a search record and an index link; so have
\* the new classes and functions of the modules that are not excluded
NewComponentsWritten ==
    \A k \in 1..Len(site[1].modules) :
        LET m == site[1].modules[k]
        IN  /\ NewId(m.id) =>
                  HasModulePage(m.id) /\ InSearchIndex(m.id) /\ IndexLinks(m.id)
            /\ StoredAllows(m.id) =>
                  \A c \in {m.classes[j] : j \in 1..Len(m.classes)}
                           \cup {m.functions[j] : j \in 1..Len(m.functions)} :
                      NewId(c.id) =>
                          OnModulePage(c.id) /\ InSearchIndex(c.id)
                              /\ IndexLinks(c.id)

\* C27: a component whose id is absent from a non-empty stored selection
\* map is included by default in the output of the run, also under
\* --use-selections: its module page and its search record are written, as
\* the index page links it.
C27_NewComponentsIncluded ==
    (site # None /\ site[1].stored # EmptyMap) => NewComponentsWritten

\* without --use-selections the new components are written
NewComponentsIncludedOnFullRun ==
    (site # None /\ site[1].stored # EmptyMap /\ ~site[1].use_selections)
        => NewComponentsWritten

\* the second run, without --use-selections, finds pkg/B.py, which the
\* stored map does not know
NewComponentsIncludedOnFullRunWitness ==
    /\ site # None
    /\ site[1].run = 2
    /\ ~site[1].use_selections
    /\ site[1].stored # EmptyMap
    /\ Len(site[1].modules) = 2
    /\ NewId(site[1].modules[2].id)
    /\ HasModulePage(site[1].modules[2].id)

====
